---- MODULE Spec2Model ----
(***************************************************************************)
(* Model of the iterative fix / verify / review loop of the GitHub app:    *)
(*   src/main.py            auto_fix_and_create_pr_with_review,            *)
(*                          run_ci_commands                                *)
(*   src/ci/checker.py      check_ci_results_match                         *)
(*   src/github/branches.py create_pr_from_branch                          *)
(*   src/agents/system.py   determine_files_to_change                      *)
(*   src/agents/reviewer.py ReviewerAgent.process                          *)
(* Python values are modelled as follows: True / False / None are the      *)
(* strings "True" / "False" / "None"; a dict is a function whose domain is *)
(* the set of its keys; a list is a sequence; the absence of a pull        *)
(* request number (None) is the number 0.                                  *)
(***************************************************************************)
EXTENDS Integers, Sequences, FiniteSets, TLC

(* ----------------------------- bounds ---------------------------------- *)
\* largest max_iterations a run is started with
MaxIterations == 2
\* longest list of paths the select-files call returns
MaxFiles == 2

(* ------------------------ python value helpers ------------------------- *)
None == "None"
True == "True"
False == "False"
Tri == {True, False, None}
\* pr_number = None
NoPR == 0

\* dict.get(key): the value, or None for a missing key
DictGet(d, k) == IF k \in DOMAIN d THEN d[k] ELSE None
\* the empty dict {} (also stands for a ci argument that is None: both falsy)
EmptyDict == [k \in {} |-> None]
\* python truthiness of a tri-state value
Truthy(v) == v = True
\* python bool -> "True"/"False"
PyBool(b) == IF b THEN True ELSE False

(* ---------------------- src/ci/checker.py ------------------------------ *)
SyntaxIssue == "syntax check passed BEFORE the changes but does NOT pass AFTER"
SyntaxRecommendation == "fix the syntax errors"
TestIssue == "tests passed BEFORE the changes but do NOT pass AFTER"
TestRecommendation == "fix the failing tests"

\* the comparator without its "is not None" guards (lines 33 and 42)
check_ci_results_match_NoNoneGuard(ci_before, ci_after) ==
    LET before_summary == IF ci_before # EmptyDict /\ "summary" \in DOMAIN ci_before
                          THEN ci_before["summary"] ELSE EmptyDict
        after_summary == IF ci_after # EmptyDict /\ "summary" \in DOMAIN ci_after
                         THEN ci_after["summary"] ELSE EmptyDict
        build_before == DictGet(before_summary, "build_passed")
        test_before == DictGet(before_summary, "test_passed")
        build_after == DictGet(after_summary, "build_passed")
        test_after == DictGet(after_summary, "test_passed")
        syntax_regressed == Truthy(build_before) /\ ~Truthy(build_after)
        issues1 == IF syntax_regressed THEN <<SyntaxIssue>> ELSE << >>
        recs1 == IF syntax_regressed THEN <<SyntaxRecommendation>> ELSE << >>
        test_regressed == Truthy(test_before) /\ ~Truthy(test_after)
        issues == IF test_regressed THEN Append(issues1, TestIssue) ELSE issues1
        recommendations == IF test_regressed
                           THEN Append(recs1, TestRecommendation) ELSE recs1
    IN  IF issues # << >>
        THEN [match |-> False, reason |-> issues,
              issues |-> issues, recommendations |-> recommendations]
        ELSE [match |-> True, reason |-> <<"CI results match or improved">>]

check_ci_results_match(ci_before, ci_after) ==
    LET \* lines 20-21: summary of each side, {} when the side is None/empty
        before_summary == IF ci_before # EmptyDict /\ "summary" \in DOMAIN ci_before
                          THEN ci_before["summary"] ELSE EmptyDict
        after_summary == IF ci_after # EmptyDict /\ "summary" \in DOMAIN ci_after
                         THEN ci_after["summary"] ELSE EmptyDict
        build_before == DictGet(before_summary, "build_passed")
        test_before == DictGet(before_summary, "test_passed")
        build_after == DictGet(after_summary, "build_passed")
        test_after == DictGet(after_summary, "test_passed")
        \* lines 33-36
        syntax_regressed == /\ build_before # None /\ build_after # None
                            /\ Truthy(build_before) /\ ~Truthy(build_after)
        issues1 == IF syntax_regressed THEN <<SyntaxIssue>> ELSE << >>
        recs1 == IF syntax_regressed THEN <<SyntaxRecommendation>> ELSE << >>
        \* lines 42-45
        test_regressed == /\ test_before # None /\ test_after # None
                          /\ Truthy(test_before) /\ ~Truthy(test_after)
        issues == IF test_regressed THEN Append(issues1, TestIssue) ELSE issues1
        recommendations == IF test_regressed
                           THEN Append(recs1, TestRecommendation) ELSE recs1
    IN  \* lines 51-64; reason, "; ".join(issues), is kept as the list it joins
        IF issues # << >>
        THEN [match |-> False, reason |-> issues,
              issues |-> issues, recommendations |-> recommendations]
        ELSE [match |-> True, reason |-> <<"CI results match or improved">>]

(* ---------------- src/main.py: run_ci_commands ------------------------- *)
CommandNames == {"build_command", "test_command", "quality_command"}
\* what one subprocess.run can do: exit 0, exit non-zero, TimeoutExpired
RunOutcomes == {"pass", "fail", "timeout"}
\* what the environment does during one run_ci_commands call
CiOutcomes ==
    [token : {"ok", "fail"}, clone : {"ok", "fail", "timeout"},
     build : RunOutcomes, test : RunOutcomes, quality : RunOutcomes]

CiFailure == [success |-> False, error |-> "ci failed"]

\* run_ci_commands with a TimeoutExpired of a command recorded as that
\* command's failure instead of ending the call
run_ci_commands_TimeoutFails(commands, out) ==
    LET build_success == IF "build_command" \in commands
                         THEN PyBool(out.build = "pass") ELSE None
        test_success == IF "test_command" \in commands
                        THEN PyBool(out.test = "pass") ELSE None
        quality_success == IF "quality_command" \in commands
                           THEN PyBool(out.quality = "pass") ELSE None
    IN  IF out.token = "fail" THEN CiFailure
        ELSE IF out.clone # "ok" THEN CiFailure
        ELSE [success |-> True,
              results |-> [build |-> build_success, test |-> test_success,
                           quality |-> quality_success],
              summary |-> [build_passed |-> IF build_success # None
                                            THEN build_success ELSE True,
                           test_passed |-> IF test_success # None
                                           THEN test_success ELSE True,
                           quality_passed |-> IF quality_success # None
                                              THEN quality_success ELSE None]]

\* commands: the set of command names whose value is truthy in the dict
run_ci_commands(commands, out) ==
    LET \* results[x]['success'] : None until the command has run
        build_success == IF "build_command" \in commands
                         THEN PyBool(out.build = "pass") ELSE None
        test_success == IF "test_command" \in commands
                        THEN PyBool(out.test = "pass") ELSE None
        quality_success == IF "quality_command" \in commands
                           THEN PyBool(out.quality = "pass") ELSE None
        timed_out == \/ "build_command" \in commands /\ out.build = "timeout"
                     \/ "test_command" \in commands /\ out.test = "timeout"
                     \/ "quality_command" \in commands /\ out.quality = "timeout"
    IN  IF out.token = "fail" THEN CiFailure
        ELSE IF out.clone # "ok" THEN CiFailure
        ELSE IF timed_out THEN CiFailure
        ELSE [success |-> True,
              results |-> [build |-> build_success, test |-> test_success,
                           quality |-> quality_success],
              summary |-> [build_passed |-> IF build_success # None
                                            THEN build_success ELSE True,
                           test_passed |-> IF test_success # None
                                           THEN test_success ELSE True,
                           quality_passed |-> IF quality_success # None
                                              THEN quality_success ELSE None]]

\* the summary the callers substitute for a failed CI execution
UnknownSummary ==
    [summary |-> [build_passed |-> None, test_passed |-> None,
                  quality_passed |-> None]]

\* "if not ci.get('success'): ci = {'summary': {... None ...}}"
CiOrUnknown(ci) == IF Truthy(DictGet(ci, "success")) THEN ci ELSE UnknownSummary

\* every value run_ci_commands can hand back for these commands, after the
\* caller's substitution
CiRuns(commands) == {CiOrUnknown(run_ci_commands(commands, o)) : o \in CiOutcomes}

(* ------------- the hosting platform, as seen for one head branch ------- *)
\* branch : refs/heads/fix/issue-<n> exists
\* ahead  : the branch has commits the base branch does not have
\* open   : numbers of the open pull requests whose head is the branch
\* closed : numbers of the closed or merged ones
\* next   : the number the platform gives to the next pull request
GhInitial ==
    { [branch |-> FALSE, ahead |-> FALSE, open |-> {}, closed |-> {}, next |-> 1],
      [branch |-> TRUE, ahead |-> FALSE, open |-> {}, closed |-> {}, next |-> 1],
      [branch |-> TRUE, ahead |-> TRUE, open |-> {1}, closed |-> {}, next |-> 2],
      [branch |-> TRUE, ahead |-> TRUE, open |-> {2}, closed |-> {1}, next |-> 3] }

\* platforms a direct call of create_pr_from_branch can also meet: the
\* earlier proposal of the branch was merged; files were written to the
\* branch and no proposal is open (none yet, or an earlier one was closed)
GhMerged == [branch |-> TRUE, ahead |-> FALSE, open |-> {}, closed |-> {1}, next |-> 2]
GhPushed ==
    { [branch |-> TRUE, ahead |-> TRUE, open |-> {}, closed |-> {}, next |-> 1],
      [branch |-> TRUE, ahead |-> TRUE, open |-> {}, closed |-> {1}, next |-> 2] }

SetMax(S) == CHOOSE x \in S : \A y \in S : y <= x

\* POST /git/refs : 201 creates the branch, 422 when it already exists
PostRef(g) ==
    IF g.branch THEN [status |-> 422, gh |-> g]
    ELSE [status |-> 201, gh |-> [g EXCEPT !.branch = TRUE]]

\* POST /pulls : 201 creates a pull request; 422 when the head branch is
\* missing, has nothing to merge, or already has an open pull request
PostPull(g) ==
    IF ~g.branch \/ ~g.ahead \/ g.open # {}
    THEN [status |-> 422, number |-> NoPR, gh |-> g]
    ELSE [status |-> 201, number |-> g.next,
          gh |-> [g EXCEPT !.open = {g.next}, !.next = g.next + 1]]

\* GET /pulls?head=..&state=open and state=all, newest first
ListOpen(g) == IF g.open = {} THEN << >> ELSE <<SetMax(g.open)>>
ListAll(g) == IF g.open \cup g.closed = {} THEN << >>
              ELSE <<SetMax(g.open \cup g.closed)>>

(* ------------- src/github/branches.py: create_pr_from_branch ----------- *)
\* the request of one call that the platform fails to answer (status other
\* than the one the state calls for), "none" when all are answered
PrFaults ==
    {"none", "token", "get_pr", "branch_check", "default_ref", "create_branch",
     "post_pr", "branch_check_422", "list_open", "list_all", "list_both"}

\* what one call does: raises or returns pr_number; post is the status of
\* its POST /pulls (0 when the call made none)
PrRaised(g, post) == [raised |-> TRUE, pr_number |-> NoPR, post |-> post, gh |-> g]
PrReturned(n, g, post) == [raised |-> FALSE, pr_number |-> n, post |-> post, gh |-> g]

\* the 422 of POST /pulls handled like any other error status (no lookup)
PostAndResolve_NoLookup(g, fault) ==
    LET post == PostPull(g)
    IN  IF fault = "post_pr" THEN PrRaised(g, 500)
        ELSE IF post.status = 201 THEN PrReturned(post.number, post.gh, 201)
        ELSE PrRaised(post.gh, 422)

\* lines 147-237, once the branch is known to exist or was created
PostAndResolve(g, fault) ==
    LET post == PostPull(g)
        existing_prs == IF fault \in {"list_open", "list_both"}
                        THEN << >> ELSE ListOpen(post.gh)
        existing_prs_all == IF fault \in {"list_all", "list_both"}
                            THEN << >> ELSE ListAll(post.gh)
    IN  \* lines 233-237
        IF fault = "post_pr" THEN PrRaised(g, 500)
        \* lines 151-169
        ELSE IF post.status = 201 THEN PrReturned(post.number, post.gh, 201)
        \* lines 172-182
        ELSE IF ~post.gh.branch \/ fault = "branch_check_422" THEN PrRaised(post.gh, 422)
        \* lines 186-201
        ELSE IF existing_prs # << >> THEN PrReturned(existing_prs[1], post.gh, 422)
        \* lines 204-220
        ELSE IF existing_prs_all # << >> THEN PrReturned(existing_prs_all[1], post.gh, 422)
        \* line 231
        ELSE PrRaised(post.gh, 422)

create_pr_from_branch(g, pr_number, fault) ==
    \* lines 59-72
    IF fault = "token" THEN PrRaised(g, 0)
    \* lines 104-117
    ELSE IF pr_number # NoPR /\ pr_number \in g.open \cup g.closed /\ fault # "get_pr"
    THEN PrReturned(pr_number, g, 0)
    \* lines 119-123
    ELSE IF g.branch /\ fault # "branch_check"
    THEN PostAndResolve(g, fault)
    \* lines 124-145
    ELSE IF fault \in {"default_ref", "create_branch"} THEN PrRaised(g, 0)
    ELSE PostAndResolve(PostRef(g).gh, fault)

(* ------------- the collaborators of the loop --------------------------- *)
Paths == {"a.py", "b.py"}
\* lists of at most n paths
ListsUpTo(n) == UNION {[1..k -> Paths] : k \in 0..n}

\* the lists a selection can be. The loop keeps nothing about a file from one
\* pass to the next, so in a pass only the length of the list and its pattern
\* of repeated paths matter: "a.py" names the path the list starts with.
Selections ==
    {l \in ListsUpTo(MaxFiles) : l = << >> \/ l[1] = "a.py"}

\* agno_system.determine_files_to_change: success False, or a list of paths
SelectAnswers ==
    {[success |-> False, files |-> << >>]}
        \cup {[success |-> True, files |-> l] : l \in Selections}

\* what can happen to one file in the loop of lines 434-502
\* (the GET of line 440 is not 200; fix_code reports failure; an exception of
\* lines 480 or 495; the PUT of line 492 succeeds)
FileOutcomes == {"read_failed", "fix_failed", "write_failed", "ok"}

\* agno_system.review_changes (ReviewerAgent.process never raises)
ReviewerAnswers ==
    { [success |-> False, approved |-> False, error |-> "reviewer failed"],
      [success |-> True, approved |-> True, reason |-> "ok",
       issues |-> << >>, recommendations |-> << >>],
      [success |-> True, approved |-> False, reason |-> "rejected",
       issues |-> <<"reviewer issue">>, recommendations |-> <<"reviewer recommendation">>] }

\* requests of steps 2-4 (lines 365-428) that can go wrong
PrepareFaults == {"none", "token", "repo", "ref", "default_ref", "create_branch"}

(* --------------------------- state ------------------------------------- *)
VARIABLES
    pc,               \* position in auto_fix_and_create_pr_with_review
    max_iterations,   \* argument
    ci_commands,      \* argument
    ci_before,        \* argument
    iteration,        \* local, line 325
    current_spec,     \* local, line 324: version of the technical spec
    pr_number,        \* local, line 326
    files_to_change,  \* local, line 347
    fixed_files,      \* local, line 431
    failed_files,     \* local, line 432
    ci_after,         \* local, line 544
    ci_match_result,  \* local, line 552
    review_result,    \* local, lines 557 / 568
    gh,               \* the platform's state for the branch fix/issue-<n>
    result,           \* the dict returned by the function
    select_calls,     \* number of determine_files_to_change calls made
    pr_posts,         \* number of create_pr_from_branch calls made by the loop
    compared,         \* check_ci_results_match was called in this pass
    reviewed,         \* review_changes was called in this pass
    decision,         \* the decision of this pass: ACCEPT, REFINE, FAIL or none
    fixed_any,        \* some pass of the run has fixed a file
    regressed_any,    \* some pass of the run has found a regression
    calls,            \* results of direct create_pr_from_branch calls
    sandbox,          \* what a direct run_ci_commands call met and left behind
    resolver,         \* arguments and result of a determine_ci_commands call
    outcomes,         \* what happened to each file processed in this pass
    pr_call,          \* the create_pr_from_branch call of this pass, if any
    requests,         \* the requests received by the two endpoints
    tree,             \* the content of each file on the branch fix/issue-<n>
    http,             \* the calls made for the files of this pass, in order
    current_code,     \* local, line 448
    file_sha,         \* local, lines 473-478
    raised,           \* the exception caught at line 705 in this pass, if any
    comments,         \* the create_pr_comment calls of this pass
    refinement,       \* what the refinement call of this pass was given
    agent,            \* a direct call of an agent: the model's answer, the result
    runs              \* two runs for one issue: where each is, what it holds

vars == <<pc, max_iterations, ci_commands, ci_before, iteration, current_spec,
          pr_number, files_to_change, fixed_files, failed_files, ci_after,
          ci_match_result, review_result, gh, result, select_calls, pr_posts,
          compared, reviewed, decision, fixed_any, regressed_any, calls,
                   sandbox, resolver, outcomes,
                   pr_call, requests, agent, runs, tree, http, current_code, file_sha,
                   raised, comments, refinement>>

file_locals == <<tree, http, current_code, file_sha>>
noted == <<raised, comments, refinement>>
locals == <<files_to_change, fixed_files, failed_files, ci_after,
            ci_match_result, review_result>>
args == <<max_iterations, ci_commands, ci_before>>
observed == <<select_calls, pr_posts, compared, reviewed, decision,
              fixed_any, regressed_any>>

NoResult == [site |-> 0, success |-> None, keys |-> {}, iteration |-> 0,
             pr_number |-> NoPR, pr_url |-> NoPR, review |-> EmptyDict]
NoDecision == "none"
NoSandbox == [called |-> FALSE]
NoResolver == [called |-> FALSE]
NoCall == [requested |-> FALSE]
\* a file's content is the list of the technical specs it was fixed under,
\* starting from its content on the default branch
NoCode == << >>
NoSha == [known |-> FALSE, of |-> NoCode]
Absent == [exists |-> FALSE, content |-> NoCode]
NoTree == [p \in Paths |-> Absent]
NoException == "none"
NoRefinement == [called |-> FALSE]
NoAgentCall == [called |-> FALSE]
NoRuns == << >>

\* the command dicts the runs of the loop are started with: no command (the
\* resolver failed or found none), syntax check and tests
CommandSets ==
    { {}, {"build_command", "test_command"} }

\* the platform when a run starts: no branch yet, a branch left by an earlier
\* run, a branch with an open proposal
GhAtStart == {g \in GhInitial : g.closed = {}}

\* the values ci_before has at the call sites (lines 1724-1753, 1941-1971)
CallerCiBefore(commands) == CiRuns(commands) \cup {UnknownSummary}

Init ==
    /\ pc = "loop"
    /\ max_iterations \in 1..MaxIterations
    /\ ci_commands \in CommandSets
    /\ ci_before \in CallerCiBefore(ci_commands)
    /\ iteration = 0
    /\ current_spec = 0
    /\ pr_number = NoPR
    /\ files_to_change = << >>
    /\ fixed_files = << >>
    /\ failed_files = << >>
    /\ ci_after = EmptyDict
    /\ ci_match_result = EmptyDict
    /\ review_result = EmptyDict
    /\ gh \in GhAtStart
    /\ result = NoResult
    /\ select_calls = 0
    /\ pr_posts = 0
    /\ compared = FALSE
    /\ reviewed = FALSE
    /\ decision = NoDecision
    /\ fixed_any = FALSE
    /\ regressed_any = FALSE
    /\ calls = << >>
    /\ sandbox = NoSandbox
    /\ resolver = NoResolver
    /\ outcomes = << >>
    /\ pr_call = NoCall
    /\ requests = << >>
    /\ tree = NoTree
    /\ http = << >>
    /\ current_code = NoCode
    /\ file_sha = NoSha
    /\ raised = NoException
    /\ comments = << >>
    /\ refinement = NoRefinement
    /\ agent = NoAgentCall
    /\ runs = NoRuns

(* --------------- the dicts the function returns ------------------------ *)
\* lines 341-345
ReturnSelectFailed ==
    [NoResult EXCEPT !.site = 341, !.success = False,
                     !.keys = {"success", "error", "iteration"},
                     !.iteration = iteration]
\* lines 352-356
ReturnNoFiles ==
    [NoResult EXCEPT !.site = 352, !.success = False,
                     !.keys = {"success", "error", "technical_spec"}]
\* lines 509-514
ReturnNothingFixed ==
    [NoResult EXCEPT !.site = 509, !.success = False,
                     !.keys = {"success", "error", "failed_files", "iteration"},
                     !.iteration = iteration]
\* lines 640-649
ReturnAccepted ==
    [NoResult EXCEPT !.site = 640, !.success = True,
                     !.keys = {"success", "pr_number", "pr_url", "branch",
                               "fixed_files", "failed_files", "iteration", "review"},
                     !.iteration = iteration, !.pr_number = pr_number,
                     !.pr_url = pr_number, !.review = review_result]
\* the FAILED result of a rejected last pass without the verdict
ReturnNotApproved_NoReview ==
    [NoResult EXCEPT !.site = 655, !.success = False,
                     !.keys = {"success", "error", "iteration", "pr_number"},
                     !.iteration = iteration, !.pr_number = pr_number]

\* lines 655-661
ReturnNotApproved ==
    [NoResult EXCEPT !.site = 655, !.success = False,
                     !.keys = {"success", "error", "review", "iteration", "pr_number"},
                     !.iteration = iteration, !.pr_number = pr_number,
                     !.review = review_result]
\* lines 708-712
ReturnException ==
    [NoResult EXCEPT !.site = 708, !.success = False,
                     !.keys = {"success", "error", "iteration"},
                     !.iteration = iteration]
\* lines 715-719
ReturnExhausted ==
    [NoResult EXCEPT !.site = 715, !.success = False,
                     !.keys = {"success", "error", "iteration"},
                     !.iteration = max_iterations]

\* the handler without its `continue`: every caught exception ends the run
ExceptHandler_AlwaysReturn ==
    pc' = "done" /\ result' = ReturnException

\* lines 705-713: the handler of an exception raised inside the iteration
ExceptHandler ==
    IF iteration >= max_iterations
    THEN pc' = "done" /\ result' = ReturnException
    ELSE pc' = "loop" /\ UNCHANGED result

(* --------- src/main.py: auto_fix_and_create_pr_with_review ------------- *)
\* the counter is not advanced
NextIteration_Stuck(i) == i

\* line 329
NextIteration(i) == i + 1

\* The locals of one pass are all assigned again before the next pass reads
\* them (lines 347, 431, 432, 544, 552 and 557 / 568), so a new pass starts
\* from the values they had before the first one.
FreshLocals ==
    /\ files_to_change' = << >>
    /\ fixed_files' = << >>
    /\ failed_files' = << >>
    /\ ci_after' = EmptyDict
    /\ ci_match_result' = EmptyDict
    /\ review_result' = EmptyDict

\* lines 328-329 and 715-719: the loop test, at the start and after `continue`
WhileTest ==
    /\ pc = "loop"
    /\ IF iteration < max_iterations
       THEN /\ iteration' = NextIteration(iteration)
            /\ pc' = "select"
            /\ FreshLocals
            /\ compared' = FALSE
            /\ reviewed' = FALSE
            /\ decision' = NoDecision
            /\ outcomes' = << >>
            /\ pr_call' = NoCall
            /\ raised' = NoException
            /\ comments' = << >>
            /\ refinement' = NoRefinement
            /\ UNCHANGED result
       ELSE /\ pc' = "done"
            /\ result' = ReturnExhausted
            /\ UNCHANGED <<iteration, locals, compared, reviewed, decision,
                           outcomes, pr_call, noted>>
    /\ UNCHANGED <<args, current_spec, pr_number, gh, select_calls, pr_posts,
                   fixed_any, regressed_any, calls, sandbox, resolver, requests, agent, runs,
                   file_locals>>

\* lines 337-363
SelectFiles ==
    /\ pc = "select"
    /\ \E files_result \in SelectAnswers :
        /\ select_calls' = select_calls + 1
        /\ IF ~Truthy(files_result.success)
           THEN /\ pc' = "done"
                /\ result' = ReturnSelectFailed
                /\ UNCHANGED files_to_change
           ELSE /\ files_to_change' = files_result.files
                /\ IF files_result.files = << >>
                   THEN IF iteration = 1
                        THEN pc' = "done" /\ result' = ReturnNoFiles
                        ELSE pc' = "loop" /\ UNCHANGED result
                   ELSE pc' = "prepare" /\ UNCHANGED result
    /\ UNCHANGED <<args, iteration, current_spec, pr_number, fixed_files,
                   failed_files, ci_after, ci_match_result, review_result, gh,
                   pr_posts, compared, reviewed, decision, fixed_any,
                   regressed_any, calls, sandbox, resolver, outcomes,
                   pr_call, requests, agent, runs, file_locals, noted>>

\* lines 365-432: token, repository, branch lookup or creation
PrepareBranch ==
    /\ pc = "prepare"
    /\ \E fault \in PrepareFaults :
        LET branch_found == gh.branch /\ fault # "ref"
        IN  IF \/ fault \in {"token", "repo"}
               \/ ~branch_found /\ fault \in {"default_ref", "create_branch"}
            THEN /\ ExceptHandler
                 /\ raised' = fault
                 /\ UNCHANGED <<gh, fixed_files, failed_files>>
            ELSE /\ gh' = IF branch_found THEN gh ELSE PostRef(gh).gh
                 /\ fixed_files' = << >>
                 /\ failed_files' = << >>
                 /\ pc' = "files"
                 /\ UNCHANGED <<result, raised>>
    /\ UNCHANGED <<args, iteration, current_spec, pr_number, files_to_change,
                   ci_after, ci_match_result, review_result, observed, calls,
                   sandbox, resolver, outcomes, pr_call, requests, agent, runs, file_locals,
                   comments, refinement>>

\* the files are taken from the end of the list
FileIndex_Reversed(fixed, failed) ==
    Len(files_to_change) - (Len(fixed) + Len(failed))

\* line 434: the position in files_to_change of the file the for loop takes
\* next; every file before it is already in fixed_files or failed_files
FileIndex(fixed, failed) == Len(fixed) + Len(failed) + 1

\* lines 434-502: one pass of the for loop
ProcessFile ==
    /\ pc = "files"
    /\ Len(fixed_files) + Len(failed_files) < Len(files_to_change)
    /\ LET file_path == files_to_change[FileIndex(fixed_files, failed_files)]
       IN  \E outcome \in FileOutcomes :
            /\ outcomes' = Append(outcomes, outcome)
            /\ IF outcome = "ok"
               THEN /\ fixed_files' = Append(fixed_files, file_path)
                    /\ gh' = [gh EXCEPT !.ahead = TRUE]
                    /\ fixed_any' = TRUE
                    /\ UNCHANGED failed_files
               ELSE /\ failed_files' = Append(failed_files,
                                              [file |-> file_path, error |-> outcome])
                    /\ UNCHANGED <<fixed_files, gh, fixed_any>>
    /\ UNCHANGED <<pc, args, iteration, current_spec, pr_number, files_to_change,
                   ci_after, ci_match_result, review_result, result, select_calls,
                   pr_posts, compared, reviewed, decision, regressed_any, calls,
                   sandbox, resolver, pr_call, requests, agent, runs, file_locals, noted>>

\* the pass goes on to the proposal and to CI only when no file failed
AfterFiles_FailureSkips ==
    /\ pc = "files"
    /\ Len(fixed_files) + Len(failed_files) = Len(files_to_change)
    /\ IF fixed_files = << >> \/ failed_files # << >>
       THEN IF iteration < max_iterations
            THEN pc' = "loop" /\ UNCHANGED result
            ELSE pc' = "done" /\ result' = ReturnNothingFixed
       ELSE pc' = "ensure_pr" /\ UNCHANGED result
    /\ UNCHANGED <<args, iteration, current_spec, pr_number, locals, gh,
                   observed, calls, sandbox, resolver, outcomes,
                   pr_call, requests, agent, runs, file_locals, noted>>

\* lines 504-514
AfterFiles ==
    /\ pc = "files"
    /\ Len(fixed_files) + Len(failed_files) = Len(files_to_change)
    /\ IF fixed_files = << >>
       THEN IF iteration < max_iterations
            THEN pc' = "loop" /\ UNCHANGED result
            ELSE pc' = "done" /\ result' = ReturnNothingFixed
       ELSE pc' = "ensure_pr" /\ UNCHANGED result
    /\ UNCHANGED <<args, iteration, current_spec, pr_number, locals, gh,
                   observed, calls, sandbox, resolver, outcomes,
                   pr_call, requests, agent, runs, file_locals, noted>>

\* the description of the proposal without its warnings section
PrBody_NoWarnings(fixed, failed) ==
    [changes |-> fixed, warnings |-> << >>]

\* src/github/branches.py lines 76-101: the description sent with the create
\* request lists fixed_files under the changes and, when failed_files is not
\* empty, each failed file with its error under the warnings
PrBody(fixed, failed) ==
    [changes |-> fixed,
     warnings |-> IF failed = << >> THEN << >>
                  ELSE [i \in 1..Len(failed) |->
                          [file |-> failed[i].file, error |-> failed[i].error]]]

\* the proposal is requested in every pass that fixed a file
NeedsProposal_EveryPass(it, prn) == TRUE

\* line 517
NeedsProposal(it, prn) == it = 1 /\ prn = NoPR

\* lines 516-540
EnsureProposal ==
    /\ pc = "ensure_pr"
    /\ IF NeedsProposal(iteration, pr_number)
       THEN \E fault \in PrFaults :
              LET pr_result == create_pr_from_branch(gh, NoPR, fault)
              IN  /\ gh' = pr_result.gh
                  /\ pr_number' = IF pr_result.raised THEN pr_number
                                  ELSE pr_result.pr_number
                  /\ pr_posts' = pr_posts + 1
                  /\ pr_call' = [requested |-> TRUE, raised |-> pr_result.raised,
                                 created |-> pr_result.gh.next # gh.next,
                                 body |-> PrBody(fixed_files, failed_files)]
       ELSE UNCHANGED <<gh, pr_number, pr_posts, pr_call>>
    /\ pc' = "run_ci"
    /\ UNCHANGED <<args, iteration, current_spec, locals, result, select_calls,
                   compared, reviewed, decision, fixed_any, regressed_any, calls,
                   sandbox, resolver, outcomes, requests, agent, runs, file_locals, noted>>

\* the pass takes the result of its own CI execution as the new baseline
RunCI_NewBaseline ==
    /\ pc = "run_ci"
    /\ ci_after' \in CiRuns(ci_commands)
    /\ ci_before' = ci_after'
    /\ pc' = "compare"
    /\ UNCHANGED <<max_iterations, ci_commands, iteration, current_spec,
                   pr_number, files_to_change, fixed_files, failed_files,
                   ci_match_result, review_result, gh, result, observed, calls,
                   sandbox, resolver, outcomes, pr_call, requests, agent, runs, file_locals,
                   noted>>

\* lines 542-548
RunCI ==
    /\ pc = "run_ci"
    /\ ci_after' \in CiRuns(ci_commands)
    /\ pc' = "compare"
    /\ UNCHANGED <<args, iteration, current_spec, pr_number, files_to_change,
                   fixed_files, failed_files, ci_match_result, review_result,
                   gh, result, observed, calls, sandbox, resolver, outcomes,
                   pr_call, requests, agent, runs, file_locals, noted>>

\* lines 557-563
SynthesizedRejection(m) ==
    [success |-> True, approved |-> False, reason |-> m.reason,
     issues |-> IF "issues" \in DOMAIN m THEN m.issues ELSE << >>,
     recommendations |-> IF "recommendations" \in DOMAIN m
                         THEN m.recommendations ELSE << >>]

\* the comparison without the short cut of lines 554-563: the reviewer is
\* asked whatever the comparison says
CompareCI_AlwaysReview ==
    /\ pc = "compare"
    /\ ci_match_result' = check_ci_results_match(ci_before, ci_after)
    /\ compared' = TRUE
    /\ regressed_any' = (regressed_any \/ ~Truthy(ci_match_result'.match))
    /\ pc' = "review"
    /\ UNCHANGED <<args, iteration, current_spec, pr_number, files_to_change,
                   fixed_files, failed_files, ci_after, review_result, gh, result,
                   select_calls, pr_posts, reviewed, decision, fixed_any,
                   calls, sandbox, resolver, outcomes,
                   pr_call, requests, agent, runs, file_locals, noted>>

\* lines 550-565
CompareCI ==
    /\ pc = "compare"
    /\ ci_match_result' = check_ci_results_match(ci_before, ci_after)
    /\ compared' = TRUE
    /\ IF ~Truthy(ci_match_result'.match)
       THEN /\ review_result' = SynthesizedRejection(ci_match_result')
            /\ regressed_any' = TRUE
            /\ pc' = "decide"
       ELSE /\ pc' = "review"
            /\ UNCHANGED <<review_result, regressed_any>>
    /\ UNCHANGED <<args, iteration, current_spec, pr_number, files_to_change,
                   fixed_files, failed_files, ci_after, gh, result, select_calls,
                   pr_posts, reviewed, decision, fixed_any, calls, sandbox,
                   resolver, outcomes,
                   pr_call, requests, agent, runs, file_locals, noted>>

\* lines 578-583
RecheckedVerdict(answer, m) ==
    IF Truthy(answer.success) /\ Truthy(answer.approved) /\ ~Truthy(m.match)
    THEN [answer EXCEPT !.approved = False, !.reason = m.reason]
    ELSE answer

\* lines 566-583
Review ==
    /\ pc = "review"
    /\ \E answer \in ReviewerAnswers :
        review_result' = RecheckedVerdict(answer, ci_match_result)
    /\ reviewed' = TRUE
    /\ pc' = "decide"
    /\ UNCHANGED <<args, iteration, current_spec, pr_number, files_to_change,
                   fixed_files, failed_files, ci_after, ci_match_result, gh,
                   result, select_calls, pr_posts, compared, decision,
                   fixed_any, regressed_any, calls, sandbox, resolver, outcomes,
                   pr_call, requests, agent, runs, file_locals, noted>>

\* the test of line 617 without "and review_result.get('approved')"
Approved_SuccessOnly(r) == Truthy(DictGet(r, "success"))

\* line 617
Approved(r) == Truthy(DictGet(r, "success")) /\ Truthy(DictGet(r, "approved"))

\* no comment is written for an approved verdict
ReviewComments_RejectedOnly(prn, r, ci, posted) ==
    IF prn # NoPR /\ ~Truthy(DictGet(r, "approved"))
    THEN <<[pr_number |-> prn, kind |-> "review", approved |-> FALSE,
            posted |-> posted]>>
    ELSE << >>

\* lines 585-638 and src/github/branches.py lines 13-52: the create_pr_comment
\* calls of one pass. The verdict is posted when pr_number is set; after an
\* approval a second comment carries the quality results when there are any.
\* create_pr_comment catches every failure and returns success False, and the
\* loop does not look at what it returns.
ReviewComments(prn, r, ci, posted) ==
    LET review_comment ==
            [pr_number |-> prn, kind |-> "review",
             approved |-> Truthy(DictGet(r, "approved")), posted |-> posted]
        quality_comment ==
            [pr_number |-> prn, kind |-> "quality",
             approved |-> TRUE, posted |-> posted]
    IN  IF prn = NoPR THEN << >>
        ELSE IF /\ Approved(r)
                /\ "results" \in DOMAIN ci
                /\ ci.results.quality # None
        THEN <<review_comment, quality_comment>>
        ELSE <<review_comment>>

\* lines 585-661: comment on the pull request, then accept, fail or refine
Decide ==
    /\ pc = "decide"
    /\ \E posted \in IF pr_number = NoPR THEN {FALSE} ELSE BOOLEAN :
         comments' = ReviewComments(pr_number, review_result, ci_after, posted)
    /\ IF Approved(review_result)
       THEN /\ pc' = "done"
            /\ result' = ReturnAccepted
            /\ decision' = "ACCEPT"
       ELSE IF iteration >= max_iterations
       THEN /\ pc' = "done"
            /\ result' = ReturnNotApproved
            /\ decision' = "FAIL"
       ELSE /\ pc' = "refine"
            /\ decision' = "REFINE"
            /\ UNCHANGED result
    /\ UNCHANGED <<args, iteration, current_spec, pr_number, locals, gh,
                   select_calls, pr_posts, compared, reviewed, fixed_any,
                   regressed_any, calls, sandbox, resolver, outcomes,
                   pr_call, requests, agent, runs, file_locals, raised, refinement>>

\* the prompt without what the reviewer found
RefinementPrompt_NoFindings(technical_spec, r) ==
    [called |-> TRUE, technical_spec |-> technical_spec,
     issues |-> << >>, recommendations |-> << >>]

\* lines 663-689: the refinement prompt holds the current technical spec and
\* the issues and recommendations of the verdict
RefinementPrompt(technical_spec, r) ==
    [called |-> TRUE, technical_spec |-> technical_spec,
     issues |-> IF "issues" \in DOMAIN r THEN r.issues ELSE << >>,
     recommendations |-> IF "recommendations" \in DOMAIN r
                         THEN r.recommendations ELSE << >>]

\* lines 663-703: the refinement call; when it raises, lines 705-713
Refine ==
    /\ pc = "refine"
    /\ refinement' = RefinementPrompt(current_spec, review_result)
    /\ \E answered \in BOOLEAN :
        IF answered
        THEN /\ current_spec' = current_spec + 1
             /\ pc' = "loop"
             /\ UNCHANGED <<result, raised>>
        ELSE /\ ExceptHandler
             /\ raised' = "refinement"
             /\ UNCHANGED current_spec
    /\ UNCHANGED <<args, iteration, pr_number, locals, gh, observed, calls,
                   sandbox, resolver, outcomes, pr_call, requests, agent, runs, file_locals,
                   comments>>

Next ==
    \/ WhileTest
    \/ SelectFiles
    \/ PrepareBranch
    \/ ProcessFile
    \/ AfterFiles
    \/ EnsureProposal
    \/ RunCI
    \/ CompareCI
    \/ Review
    \/ Decide
    \/ Refine

Spec == Init /\ [][Next]_vars

(* ------------- check_ci_results_match called on its own ---------------- *)
SummaryKeys == {"build_passed", "test_passed", "quality_passed"}
\* the ci arguments: None or {}, a dict without 'summary', a dict whose
\* summary has every key, and one whose summary is empty
CiValues ==
    {EmptyDict, [success |-> False, error |-> "ci failed"], [summary |-> EmptyDict]}
        \cup {[summary |-> sm] : sm \in [SummaryKeys -> Tri]}

InitCmp ==
    /\ pc = "cmp_call"
    /\ max_iterations = 1
    /\ ci_commands = {}
    /\ ci_before \in CiValues
    /\ iteration = 0
    /\ current_spec = 0
    /\ pr_number = NoPR
    /\ files_to_change = << >>
    /\ fixed_files = << >>
    /\ failed_files = << >>
    /\ ci_after \in CiValues
    /\ ci_match_result = EmptyDict
    /\ review_result = EmptyDict
    /\ gh \in {GhMerged}
    /\ result = NoResult
    /\ select_calls = 0
    /\ pr_posts = 0
    /\ compared = FALSE
    /\ reviewed = FALSE
    /\ decision = NoDecision
    /\ fixed_any = FALSE
    /\ regressed_any = FALSE
    /\ calls = << >>
    /\ sandbox = NoSandbox
    /\ resolver = NoResolver
    /\ outcomes = << >>
    /\ pr_call = NoCall
    /\ requests = << >>
    /\ tree = NoTree
    /\ http = << >>
    /\ current_code = NoCode
    /\ file_sha = NoSha
    /\ raised = NoException
    /\ comments = << >>
    /\ refinement = NoRefinement
    /\ agent = NoAgentCall
    /\ runs = NoRuns

CallCompare ==
    /\ pc = "cmp_call"
    /\ ci_match_result' = check_ci_results_match(ci_before, ci_after)
    /\ compared' = TRUE
    /\ pc' = "cmp_done"
    /\ UNCHANGED <<args, iteration, current_spec, pr_number, files_to_change,
                   fixed_files, failed_files, ci_after, review_result, gh, result,
                   select_calls, pr_posts, reviewed, decision, fixed_any,
                   regressed_any, calls, sandbox, resolver, outcomes,
                   pr_call, requests, agent, runs, file_locals, noted>>

NextCmp == CallCompare

SpecCmp == InitCmp /\ [][NextCmp]_vars

(* ------------- create_pr_from_branch called repeatedly ----------------- *)
\* number of calls made for the one branch and base
MaxCalls == 2

InitPr ==
    /\ pc = "pr_call"
    /\ max_iterations = 1
    /\ ci_commands = {}
    /\ ci_before = UnknownSummary
    /\ iteration = 0
    /\ current_spec = 0
    /\ pr_number = NoPR
    /\ files_to_change = << >>
    /\ fixed_files = << >>
    /\ failed_files = << >>
    /\ ci_after = EmptyDict
    /\ ci_match_result = EmptyDict
    /\ review_result = EmptyDict
    /\ gh \in GhInitial \cup {GhMerged} \cup GhPushed
    /\ result = NoResult
    /\ select_calls = 0
    /\ pr_posts = 0
    /\ compared = FALSE
    /\ reviewed = FALSE
    /\ decision = NoDecision
    /\ fixed_any = FALSE
    /\ regressed_any = FALSE
    /\ calls = << >>
    /\ sandbox = NoSandbox
    /\ resolver = NoResolver
    /\ outcomes = << >>
    /\ pr_call = NoCall
    /\ requests = << >>
    /\ tree = NoTree
    /\ http = << >>
    /\ current_code = NoCode
    /\ file_sha = NoSha
    /\ raised = NoException
    /\ comments = << >>
    /\ refinement = NoRefinement
    /\ agent = NoAgentCall
    /\ runs = NoRuns

\* the pr_number argument of a call: absent, or a number an earlier call returned
PrArguments == {NoPR} \cup {calls[i].pr_number : i \in 1..Len(calls)}

CallCreatePr ==
    /\ pc = "pr_call"
    /\ Len(calls) < MaxCalls
    /\ \E argument \in PrArguments, fault \in PrFaults :
        LET pr_result == create_pr_from_branch(gh, argument, fault)
        IN  /\ gh' = pr_result.gh
            /\ calls' = Append(calls,
                   [argument |-> argument, fault |-> fault,
                    raised |-> pr_result.raised, pr_number |-> pr_result.pr_number,
                    post |-> pr_result.post,
                    created |-> pr_result.gh.next # gh.next])
    /\ UNCHANGED <<pc, args, iteration, current_spec, pr_number, locals, result,
                   observed, sandbox, resolver, outcomes,
                   pr_call, requests, agent, runs, file_locals, noted>>

NextPr == CallCreatePr

SpecPr == InitPr /\ [][NextPr]_vars

(* ======================= properties of the loop ======================== *)
Match == DictGet(ci_match_result, "match")
Returned == pc = "done"
Accepted == Returned /\ result.success = True

\* C1 (regression dominance): in a pass whose comparison reported a
\* regression (match == False) the function does not return success == True,
\* and the decision of that pass, once taken, is REFINE or FAIL.
C1_RegressionDominance ==
    (compared /\ Match = False)
        => (result.success # True /\ decision \in {"none", "REFINE", "FAIL"})

C1_Witness ==
    Returned /\ compared /\ Match = False /\ decision = "FAIL" /\ result.site = 655

\* C2 (single proposal): pr_number, once set, keeps its value for the rest of
\* the run, the loop asks for the creation of a proposal at most once, and the
\* branch never has two open proposals.
C2_SingleProposal ==
    [][ /\ (pr_number # NoPR => pr_number' = pr_number)
        /\ pr_posts' <= 1
        /\ Cardinality(gh'.open) <= 1 ]_vars

C2_Witness ==
    pc = "run_ci" /\ iteration >= 2 /\ pr_number # NoPR /\ fixed_files # << >>

\* a measure of the work left: passes left, then the position in the pass
PassLength == MaxFiles + 11
StageRank ==
    CASE pc = "done" -> 0
      [] pc = "loop" -> 1
      [] pc = "refine" -> 2
      [] pc = "decide" -> 3
      [] pc = "review" -> 4
      [] pc = "compare" -> 5
      [] pc = "run_ci" -> 6
      [] pc = "ensure_pr" -> 7
      [] pc = "files" -> 8 + Len(files_to_change) - Len(fixed_files) - Len(failed_files)
      [] pc = "prepare" -> MaxFiles + 9
      [] pc = "select" -> MaxFiles + 10
      [] OTHER -> 0
WorkLeft ==
    IF Returned THEN 0 ELSE (max_iterations - iteration) * PassLength + StageRank

\* C3 (bounded termination): every step of the loop decreases the work left
\* (so the loop terminates), a pass begins with the counter going up by exactly
\* one and the counter changes nowhere else, determine_files_to_change is
\* called once per pass, and neither the counter nor the number of these calls
\* exceeds max_iterations.
C3_BoundedTermination ==
    [][ /\ WorkLeft' < WorkLeft
        /\ WorkLeft' >= 0
        /\ iteration' <= max_iterations
        /\ select_calls' <= max_iterations
        /\ IF pc = "loop" /\ pc' = "select"
           THEN iteration' = iteration + 1
           ELSE iteration' = iteration
        /\ IF pc = "select"
           THEN select_calls' = select_calls + 1 /\ select_calls' = iteration
           ELSE select_calls' = select_calls ]_vars

C3_Witness ==
    /\ Returned /\ result.site = 715
    /\ max_iterations = MaxIterations
    /\ select_calls = max_iterations /\ iteration = max_iterations

C7_AcceptedCarriesProposal ==
    Accepted
        => /\ result.pr_number # NoPR
           /\ result.pr_url # NoPR
           /\ result.pr_number \in gh.open

\* C8: the result is ACCEPTED or FAILED and carries the iteration count, and a
\* FAILED result carries the verdict of its pass or, after a regression, the
\* regression reason.
C8_StructuredResult ==
    Returned
        => /\ result.success \in {True, False}
           /\ "iteration" \in result.keys
           /\ (result.success = False /\ (review_result # EmptyDict \/ regressed_any))
                 => "review" \in result.keys

\* C9: in a pass whose comparison reported a regression the reviewer is not
\* called, the verdict is a rejection carrying the comparison's issues and
\* recommendations, and the decision is FAIL in the last pass, REFINE before.
C9_RegressionSkipsReview ==
    (compared /\ Match = False)
        => /\ ~reviewed
           /\ DictGet(review_result, "success") = True
           /\ DictGet(review_result, "approved") = False
           /\ review_result.issues = ci_match_result.issues
           /\ review_result.recommendations = ci_match_result.recommendations
           /\ pc = "decide" \/ decision # "none"
           /\ decision # "none"
                 => decision = IF iteration >= max_iterations THEN "FAIL" ELSE "REFINE"

C9_Witness ==
    pc = "refine" /\ compared /\ Match = False /\ ~reviewed /\ decision = "REFINE"

(* ================= properties of create_pr_from_branch ================= *)
Creations == Cardinality({i \in 1..Len(calls) : calls[i].created})

\* C6 as stated: a call that follows a successful one, and is given its
\* pr_number or has its create request rejected with 422, creates nothing,
\* does not raise and returns the same pr_number.
C6_Original ==
    /\ Creations <= 1
    /\ \A i, j \in 1..Len(calls) :
        (i < j /\ ~calls[i].raised /\ (calls[j].argument # NoPR \/ calls[j].post = 422))
            => /\ ~calls[j].created
               /\ ~calls[j].raised
               /\ calls[j].pr_number = calls[i].pr_number

\* C6 amended: calls for one branch and base create at most one proposal; a
\* call that follows a successful one creates nothing, returns the same
\* pr_number whenever it returns, and raises only when one of its requests is
\* not answered by the platform.
C6_Idempotence ==
    /\ Creations <= 1
    /\ \A i, j \in 1..Len(calls) :
        (i < j /\ ~calls[i].raised)
            => /\ ~calls[j].created
               /\ ~calls[j].raised => calls[j].pr_number = calls[i].pr_number
               /\ calls[j].raised => calls[j].fault # "none"

C6_Witness ==
    /\ Len(calls) = 2
    /\ ~calls[1].raised /\ calls[1].created
    /\ calls[2].post = 422 /\ ~calls[2].raised
    /\ calls[2].pr_number = calls[1].pr_number

(* ================= properties of check_ci_results_match ================ *)
\* the value of a check in a ci argument, None when it is not there
SummaryValue(ci, k) ==
    IF "summary" \in DOMAIN ci /\ k \in DOMAIN ci["summary"]
    THEN ci["summary"][k] ELSE None
Regressed(k) == SummaryValue(ci_before, k) = True /\ SummaryValue(ci_after, k) = False

\* C10: the comparison reports a regression exactly when the syntax check or
\* the test check was true before and is false after; it then lists one issue
\* and one recommendation per regressed check, syntax first.
C10_RegressionRule ==
    pc = "cmp_done"
        => /\ Match \in {True, False}
           /\ Match = False <=> (Regressed("build_passed") \/ Regressed("test_passed"))
           /\ Match = False
                 => /\ ci_match_result.issues =
                          (IF Regressed("build_passed") THEN <<SyntaxIssue>> ELSE << >>)
                          \o (IF Regressed("test_passed") THEN <<TestIssue>> ELSE << >>)
                    /\ ci_match_result.recommendations =
                          (IF Regressed("build_passed") THEN <<SyntaxRecommendation>> ELSE << >>)
                          \o (IF Regressed("test_passed") THEN <<TestRecommendation>> ELSE << >>)

C10_Witness ==
    /\ pc = "cmp_done" /\ Match = False
    /\ Len(ci_match_result.issues) = 2
    /\ SummaryValue(ci_after, "quality_passed") = True

\* the comparison lists the issue of check k
Listed(issue) ==
    /\ "issues" \in DOMAIN ci_match_result
    /\ \E i \in 1..Len(ci_match_result.issues) : ci_match_result.issues[i] = issue
HasSummary(ci) == "summary" \in DOMAIN ci

\* C11 (absent baseline): a check that is None before or None after is not
\* reported as regressed, whatever its other side is (so tests unknown before
\* and false after are no test regression), and match is True whenever the
\* summary of either argument is missing or the argument is None or empty.
C11_AbsentBaseline ==
    pc = "cmp_done"
        => /\ (SummaryValue(ci_before, "build_passed") = None
                 \/ SummaryValue(ci_after, "build_passed") = None)
                 => ~Listed(SyntaxIssue)
           /\ (SummaryValue(ci_before, "test_passed") = None
                 \/ SummaryValue(ci_after, "test_passed") = None)
                 => ~Listed(TestIssue)
           /\ (~HasSummary(ci_before) \/ ~HasSummary(ci_after)) => Match = True
           /\ (ci_before = EmptyDict \/ ci_after = EmptyDict) => Match = True

C11_Witness ==
    /\ pc = "cmp_done"
    /\ SummaryValue(ci_before, "test_passed") = None
    /\ SummaryValue(ci_after, "test_passed") = False
    /\ SummaryValue(ci_before, "build_passed") = True
    /\ SummaryValue(ci_after, "build_passed") = True
    /\ Match = True

(* ------------- run_ci_commands called on its own ----------------------- *)
\* the temporary directory of one call: tempfile.mkdtemp (line 1442) and
\* shutil.rmtree (line 1574) succeed or raise
SandboxOutcomes == [mkdtemp : {"ok", "fail"}, rmtree : {"ok", "fail"}]

\* the directory is left where the call created it
TempDirAfter_NoCleanup(sb) ==
    IF sb.mkdtemp = "fail" THEN "none" ELSE "exists"

\* lines 1437-1443 and 1570-1577: temp_dir stays None when mkdtemp raises;
\* the finally clause removes the directory, and a failed removal is logged
TempDirAfter(sb) ==
    IF sb.mkdtemp = "fail" THEN "none"
    ELSE IF sb.rmtree = "ok" THEN "removed"
    ELSE "exists"

\* the function with its try / except / finally
RunInSandbox(commands, out, sb) ==
    IF sb.mkdtemp = "fail" THEN CiFailure ELSE run_ci_commands(commands, out)

\* the subprocess outcome of a command
OutcomeOf(out, c) ==
    CASE c = "build_command" -> out.build
      [] c = "test_command" -> out.test
      [] c = "quality_command" -> out.quality

\* every command that is asked for is run, whatever happened before it
RunFrom_All(commands, out) ==
    SelectSeq(<<"build_command", "test_command", "quality_command">>,
              LAMBDA c : c \in commands)

\* lines 1475-1540: the commands that are asked for are run in the order of
\* lines 1475, 1497 and 1519; the TimeoutExpired of one of them leaves the
\* try block
RunFrom(commands, out) ==
    LET CommandOrder == <<"build_command", "test_command", "quality_command">>
        asked == SelectSeq(CommandOrder, LAMBDA c : c \in commands)
        timeouts == {i \in 1..Len(asked) : OutcomeOf(out, asked[i]) = "timeout"}
        last == IF timeouts = {} THEN Len(asked)
                ELSE CHOOSE i \in timeouts : \A j \in timeouts : i <= j
    IN  SubSeq(asked, 1, last)

\* the commands one call runs, in order
CommandsRun(commands, out, sb) ==
    IF sb.mkdtemp = "fail" \/ out.token = "fail" \/ out.clone # "ok"
    THEN << >>
    ELSE RunFrom(commands, out)

InitCi ==
    /\ pc = "ci_call"
    /\ max_iterations = 1
    /\ ci_commands \in SUBSET CommandNames
    /\ ci_before \in CallerCiBefore(ci_commands)
    /\ iteration = 0
    /\ current_spec = 0
    /\ pr_number = NoPR
    /\ files_to_change = << >>
    /\ fixed_files = << >>
    /\ failed_files = << >>
    /\ ci_after = EmptyDict
    /\ ci_match_result = EmptyDict
    /\ review_result = EmptyDict
    /\ gh \in {GhMerged}
    /\ result = NoResult
    /\ select_calls = 0
    /\ pr_posts = 0
    /\ compared = FALSE
    /\ reviewed = FALSE
    /\ decision = NoDecision
    /\ fixed_any = FALSE
    /\ regressed_any = FALSE
    /\ calls = << >>
    /\ sandbox = NoSandbox
    /\ resolver = NoResolver
    /\ outcomes = << >>
    /\ pr_call = NoCall
    /\ requests = << >>
    /\ tree = NoTree
    /\ http = << >>
    /\ current_code = NoCode
    /\ file_sha = NoSha
    /\ raised = NoException
    /\ comments = << >>
    /\ refinement = NoRefinement
    /\ agent = NoAgentCall
    /\ runs = NoRuns

\* line 544: ci_after = run_ci_commands(owner, repo, branch_name, ci_commands)
CallRunCi ==
    /\ pc = "ci_call"
    /\ \E out \in CiOutcomes, sb \in SandboxOutcomes :
        /\ ci_after' = RunInSandbox(ci_commands, out, sb)
        /\ sandbox' = [called |-> TRUE, out |-> out, sb |-> sb,
                       temp_dir |-> TempDirAfter(sb),
                       ran |-> CommandsRun(ci_commands, out, sb)]
    /\ pc' = "ci_ran"
    /\ UNCHANGED <<args, iteration, current_spec, pr_number, files_to_change,
                   fixed_files, failed_files, ci_match_result, review_result,
                   gh, result, observed, calls, resolver, outcomes,
                   pr_call, requests, agent, runs, file_locals, noted>>

\* lines 546-552: the caller's substitution and the comparison
UseCiResult ==
    /\ pc = "ci_ran"
    /\ ci_after' = CiOrUnknown(ci_after)
    /\ ci_match_result' = check_ci_results_match(ci_before, ci_after')
    /\ compared' = TRUE
    /\ pc' = "ci_done"
    /\ UNCHANGED <<args, iteration, current_spec, pr_number, files_to_change,
                   fixed_files, failed_files, review_result, gh, result,
                   select_calls, pr_posts, reviewed, decision, fixed_any,
                   regressed_any, calls, sandbox, resolver, outcomes,
                   pr_call, requests, agent, runs, file_locals, noted>>

NextCi == CallRunCi \/ UseCiResult

SpecCi == InitCi /\ [][NextCi]_vars

(* ================= properties of run_ci_commands ======================= *)
\* the summary key of a command
CheckKey(c) ==
    CASE c = "build_command" -> "build_passed"
      [] c = "test_command" -> "test_passed"
      [] c = "quality_command" -> "quality_passed"
\* the commands that run before c in one call
RunsBefore(c) ==
    CASE c = "build_command" -> {}
      [] c = "test_command" -> {"build_command"}
      [] c = "quality_command" -> {"build_command", "test_command"}
\* the call got as far as running its commands
Cloned ==
    /\ sandbox.called
    /\ sandbox.sb.mkdtemp = "ok" /\ sandbox.out.token = "ok" /\ sandbox.out.clone = "ok"
\* command c was run by the call and hit its timeout
TimedOut(c) ==
    /\ Cloned
    /\ c \in ci_commands
    /\ OutcomeOf(sandbox.out, c) = "timeout"
    /\ \A b \in RunsBefore(c) \cap ci_commands : OutcomeOf(sandbox.out, b) # "timeout"

\* C12: in the value run_ci_commands returns, a check whose command is absent
\* is None in the summary (never True).
C12_AbsentIsUnknown ==
    pc = "ci_ran"
        => \A c \in CommandNames \ ci_commands :
              SummaryValue(ci_after, CheckKey(c)) = None

C17_TimeoutIsUnknown ==
    \A c \in CommandNames :
        TimedOut(c)
            => /\ SummaryValue(ci_after, CheckKey(c)) = None
               /\ pc = "ci_done"
                     => /\ ci_after = UnknownSummary
                        /\ Match = True
                        /\ ~Listed(SyntaxIssue) /\ ~Listed(TestIssue)

C17_Witness ==
    /\ pc = "ci_done"
    /\ TimedOut("test_command")
    /\ sandbox.out.build = "pass"
    /\ SummaryValue(ci_before, "test_passed") = True
    /\ SummaryValue(ci_after, "test_passed") = None
    /\ Match = True

(* ------------- src/main.py: determine_ci_commands ---------------------- *)
\* what get_repository_structure reports, as far as the resolver reads it:
\* kind       : the key file that selects the branch of the heuristic
\* makefile   : a file whose path is Makefile
\* test_dirs  : a directory whose path matches a test pattern
\* test_paths : a file whose path contains "pytest", one that contains "test"
\*              only, or no such file
\* package_test : package.json is a key file and its text contains "test"
\* test_config  : a jest / vitest / mocha configuration file
ProjectKinds ==
    {"python", "node", "typescript", "maven", "gradle", "rust", "go", "other"}
Structures ==
    [kind : ProjectKinds, makefile : BOOLEAN, test_dirs : BOOLEAN,
     test_paths : {"none", "test", "pytest"}, package_test : BOOLEAN,
     test_config : BOOLEAN]

\* lines 1153-1190
check_tests_exist(st) ==
    IF st.package_test THEN TRUE
    ELSE st.test_dirs \/ st.test_paths # "none" \/ st.test_config

NoCommands ==
    [build_command |-> None, test_command |-> None, quality_command |-> None]

\* lines 1347-1420
determine_ci_commands_heuristic(st, has_tests) ==
    LET by_kind ==
          CASE st.kind = "python" ->
                 [build_command |-> "py_compile",
                  test_command |-> IF ~has_tests THEN None
                                   ELSE IF st.test_paths = "pytest" THEN "pytest"
                                   ELSE IF st.test_paths = "test" THEN "unittest"
                                   ELSE None,
                  quality_command |-> "pylint"]
            [] st.kind = "node" ->
                 [build_command |-> "node --check",
                  test_command |-> IF has_tests THEN "npm test" ELSE None,
                  quality_command |-> "npm run lint"]
            [] st.kind = "typescript" ->
                 [build_command |-> "tsc --noEmit",
                  test_command |-> IF has_tests THEN "npm test" ELSE None,
                  quality_command |-> "npm run lint"]
            [] st.kind = "maven" ->
                 [build_command |-> "mvn validate",
                  test_command |-> IF has_tests THEN "mvn test" ELSE None,
                  quality_command |-> "mvn checkstyle:check"]
            [] st.kind = "gradle" ->
                 [build_command |-> "gradlew compileJava",
                  test_command |-> IF has_tests THEN "gradlew test" ELSE None,
                  quality_command |-> "gradlew check"]
            [] st.kind = "rust" ->
                 [build_command |-> "cargo check",
                  test_command |-> IF has_tests THEN "cargo test" ELSE None,
                  quality_command |-> "cargo clippy"]
            [] st.kind = "go" ->
                 [build_command |-> "go build",
                  test_command |-> IF has_tests THEN "go test" ELSE None,
                  quality_command |-> "golangci-lint"]
            [] OTHER -> NoCommands
        \* lines 1410-1414
        commands == IF st.makefile /\ has_tests /\ by_kind.test_command = None
                    THEN [by_kind EXCEPT !.test_command = "make test"]
                    ELSE by_kind
    IN  [success |-> True, commands |-> commands]

\* what the model answers: the request raises; text that is no JSON; JSON
\* null; a JSON list; a JSON object (a missing key reads as None)
ModelCommand == {None, "model command"}
ModelAnswers ==
    {[kind |-> k] : k \in {"raise", "not_json", "json_null", "json_list"}}
        \cup [kind : {"json_object"}, syntax_check_command : ModelCommand,
              build_command : ModelCommand, test_command : ModelCommand,
              quality_command : ModelCommand]

ResolverFailure == [success |-> False, error |-> "resolver failed"]

\* the model's test_command is returned as it came
DropTestCommand_Keep(commands, has_tests) == commands

\* lines 1319-1328
DropTestCommand(commands, has_tests) ==
    IF ~has_tests THEN [commands EXCEPT !.test_command = None] ELSE commands

\* lines 1192-1345; fetched: get_repository_structure reported success
determine_ci_commands(fetched, st, answer) ==
    LET has_tests == check_tests_exist(st)
        heuristic_result == determine_ci_commands_heuristic(st, has_tests)
        \* lines 1306-1315
        renamed ==
            IF answer.kind = "json_list" THEN heuristic_result.commands
            ELSE IF answer.syntax_check_command # None
            THEN [build_command |-> answer.syntax_check_command,
                  test_command |-> answer.test_command,
                  quality_command |-> answer.quality_command]
            ELSE IF answer.build_command = None THEN heuristic_result.commands
            ELSE [build_command |-> answer.build_command,
                  test_command |-> answer.test_command,
                  quality_command |-> answer.quality_command]
    IN  \* lines 1206-1210
        IF ~fetched THEN ResolverFailure
        \* lines 1341-1345
        ELSE IF answer.kind \in {"raise", "json_null"} THEN ResolverFailure
        \* lines 1335-1338
        ELSE IF answer.kind = "not_json" THEN heuristic_result
        \* lines 1318-1333
        ELSE [success |-> True, commands |-> DropTestCommand(renamed, has_tests)]

InitResolve ==
    /\ pc = "resolve_call"
    /\ max_iterations = 1
    /\ ci_commands = {}
    /\ ci_before = UnknownSummary
    /\ iteration = 0
    /\ current_spec = 0
    /\ pr_number = NoPR
    /\ files_to_change = << >>
    /\ fixed_files = << >>
    /\ failed_files = << >>
    /\ ci_after = EmptyDict
    /\ ci_match_result = EmptyDict
    /\ review_result = EmptyDict
    /\ gh \in {GhMerged}
    /\ result = NoResult
    /\ select_calls = 0
    /\ pr_posts = 0
    /\ compared = FALSE
    /\ reviewed = FALSE
    /\ decision = NoDecision
    /\ fixed_any = FALSE
    /\ regressed_any = FALSE
    /\ calls = << >>
    /\ sandbox = NoSandbox
    /\ resolver \in [called : {FALSE}, fetched : BOOLEAN, structure : Structures,
                     answer : ModelAnswers]
    /\ outcomes = << >>
    /\ pr_call = NoCall
    /\ requests = << >>
    /\ tree = NoTree
    /\ http = << >>
    /\ current_code = NoCode
    /\ file_sha = NoSha
    /\ raised = NoException
    /\ comments = << >>
    /\ refinement = NoRefinement
    /\ agent = NoAgentCall
    /\ runs = NoRuns

CallResolve ==
    /\ pc = "resolve_call"
    /\ resolver' =
          [called |-> TRUE, fetched |-> resolver.fetched,
           structure |-> resolver.structure, answer |-> resolver.answer,
           has_tests |-> check_tests_exist(resolver.structure),
           result |-> determine_ci_commands(resolver.fetched, resolver.structure,
                                            resolver.answer)]
    /\ pc' = "resolve_done"
    /\ UNCHANGED <<args, iteration, current_spec, pr_number, locals, gh, result,
                   observed, calls, sandbox, outcomes, pr_call, requests, agent, runs,
                   file_locals, noted>>

NextResolve == CallResolve

SpecResolve == InitResolve /\ [][NextResolve]_vars

(* ================= properties of determine_ci_commands ================= *)
\* C13: when no test is detected (has_tests false) the commands the resolver
\* returns have test_command None, whether they come from the model's answer,
\* from the heuristic used for an unusable answer, or from the heuristic's
\* Makefile rule.
C13_NoTestsNoTestCommand ==
    (resolver.called /\ ~resolver.has_tests /\ resolver.result.success = True)
        => /\ resolver.result.commands.test_command = None
           /\ determine_ci_commands_heuristic(resolver.structure, FALSE)
                  .commands.test_command = None

C13_Witness ==
    /\ resolver.called /\ ~resolver.has_tests
    /\ resolver.structure.makefile
    /\ resolver.answer.kind = "json_object"
    /\ resolver.answer.syntax_check_command # None
    /\ resolver.answer.test_command # None
    /\ resolver.result.success = True
    /\ resolver.result.commands.test_command = None

(* ================= further properties of the loop ====================== *)
\* C14: when the reviewer was asked in the last permitted pass (no regression)
\* and did not approve, the run returns FAILED with iteration equal to
\* max_iterations and with that verdict as its review; no refinement is made
\* in a last pass, so with max_iterations = 1 none is made at all.
C14_FinalRejection ==
    /\ (Returned /\ reviewed /\ ~Approved(review_result))
          => /\ compared /\ Match = True
             /\ iteration = max_iterations
             /\ result.success = False
             /\ "iteration" \in result.keys /\ result.iteration = max_iterations
             /\ "review" \in result.keys /\ result.review = review_result
             /\ decision = "FAIL"
    /\ pc = "refine" => iteration < max_iterations
    /\ max_iterations = 1 => (pc # "refine" /\ current_spec = 0)

C14_Witness ==
    /\ Returned /\ max_iterations = 1 /\ reviewed
    /\ DictGet(review_result, "success") = True
    /\ DictGet(review_result, "approved") = False
    /\ result.review = review_result /\ result.iteration = 1
    /\ current_spec = 0


\* the files processed so far in this pass, each with what happened to it
Processed ==
    [i \in 1..Len(outcomes) |-> [file |-> files_to_change[i], error |-> outcomes[i]]]
IsOk(p) == p.error = "ok"
IsFailed(p) == p.error # "ok"
Succeeded == SelectSeq(Processed, IsOk)
Failed == SelectSeq(Processed, IsFailed)
SucceededPaths == {Succeeded[i].file : i \in 1..Len(Succeeded)}
FailedPaths == {Failed[i].file : i \in 1..Len(Failed)}
Occurrences(path) ==
    Cardinality({i \in 1..Len(files_to_change) : files_to_change[i] = path})
BodyChanges == {pr_call.body.changes[i] : i \in 1..Len(pr_call.body.changes)}
BodyWarned == {pr_call.body.warnings[i].file : i \in 1..Len(pr_call.body.warnings)}
CreatedInPass == pr_call.requested /\ pr_call.created

\* C15 as stated: the proposal created in a pass lists exactly the files the
\* pass fixed as its changes and every failed file with its error as its
\* warnings, and no failed file is among the changes.
C15_Original ==
    CreatedInPass
        => /\ pr_call.body.changes = [i \in 1..Len(Succeeded) |-> Succeeded[i].file]
           /\ pr_call.body.warnings = Failed
           /\ BodyChanges \cap FailedPaths = {}

\* C15 amended: the proposal created in a pass lists the paths of the fixed
\* entries of the selection as its changes, in order, and every failed entry
\* with its error as its warnings; a path is among both the changes and the
\* warnings only when the selection names it more than once.
C15_ProposalBody ==
    CreatedInPass
        => /\ pr_call.body.changes = [i \in 1..Len(Succeeded) |-> Succeeded[i].file]
           /\ pr_call.body.warnings = Failed
           /\ BodyChanges = SucceededPaths /\ BodyWarned = FailedPaths
           /\ \A path \in BodyChanges \cap BodyWarned : Occurrences(path) >= 2

C15_Witness ==
    /\ CreatedInPass
    /\ files_to_change = <<"a.py", "b.py">>
    /\ outcomes = <<"ok", "read_failed">>
    /\ pr_call.body.changes = <<"a.py">>
    /\ pr_call.body.warnings = <<[file |-> "b.py", error |-> "read_failed"]>>

(* ------------- src/main.py: the callers of the loop -------------------- *)
\* requests (deliveries of the webhook, posts to /fix-issue) one model run
\* receives; the server of line 2098 handles each request in its own thread
MaxRequests == 3
Endpoints == {"webhook", "fix_issue"}
\* issue numbers of one repository
Issues == {1, 2}
\* a request is a repeated or new "issues opened" event, or a well-formed
\* /fix-issue body ("issue"); or anything the handler answers at once: a bad
\* signature, another event, a body without issue number ("other")
RequestKinds == {"issue", "other"}

InitCallers ==
    /\ pc = "serving"
    /\ max_iterations = 1
    /\ ci_commands = {}
    /\ ci_before = UnknownSummary
    /\ iteration = 0
    /\ current_spec = 0
    /\ pr_number = NoPR
    /\ files_to_change = << >>
    /\ fixed_files = << >>
    /\ failed_files = << >>
    /\ ci_after = EmptyDict
    /\ ci_match_result = EmptyDict
    /\ review_result = EmptyDict
    /\ gh \in {GhMerged}
    /\ result = NoResult
    /\ select_calls = 0
    /\ pr_posts = 0
    /\ compared = FALSE
    /\ reviewed = FALSE
    /\ decision = NoDecision
    /\ fixed_any = FALSE
    /\ regressed_any = FALSE
    /\ calls = << >>
    /\ sandbox = NoSandbox
    /\ resolver = NoResolver
    /\ outcomes = << >>
    /\ pr_call = NoCall
    /\ requests = << >>
    /\ tree = NoTree
    /\ http = << >>
    /\ current_code = NoCode
    /\ file_sha = NoSha
    /\ raised = NoException
    /\ comments = << >>
    /\ refinement = NoRefinement
    /\ agent = NoAgentCall
    /\ runs = NoRuns

CallerUnchanged ==
    UNCHANGED <<pc, args, iteration, current_spec, pr_number, locals, gh, result,
                observed, calls, sandbox, resolver, outcomes, pr_call,
                agent, runs, file_locals, noted>>

\* a request arrives and its handler starts (lines 1617-1618, 1848-1849)
Receive ==
    /\ pc = "serving"
    /\ Len(requests) < MaxRequests
    /\ \E e \in Endpoints, n \in Issues, k \in RequestKinds :
        requests' = Append(requests,
                       [endpoint |-> e, issue |-> n, kind |-> k, stage |-> "received"])
    /\ CallerUnchanged

\* lines 1628-1667 and 1855-1881: the request is checked; only an "issues
\* opened" event or a complete /fix-issue body goes on
Admit(i) ==
    /\ requests[i].stage = "received"
    /\ requests' = [requests EXCEPT ![i].stage =
                       IF requests[i].kind = "issue" THEN "preparing" ELSE "answered"]
    /\ CallerUnchanged

\* lines 1701-1770 and 1903-1987: analyze_issue, then the CI commands and the
\* CI run on the default branch, then auto_fix_and_create_pr_with_review is
\* entered; a failed analysis answers the request without a run
StartRun(i) ==
    /\ requests[i].stage = "preparing"
    /\ \E analysed \in BOOLEAN :
        requests' = [requests EXCEPT ![i].stage =
                        IF analysed THEN "running" ELSE "answered"]
    /\ CallerUnchanged

\* auto_fix_and_create_pr_with_review returns and the response is sent
FinishRun(i) ==
    /\ requests[i].stage = "running"
    /\ requests' = [requests EXCEPT ![i].stage = "answered"]
    /\ CallerUnchanged

NextCallers ==
    \/ Receive
    \/ \E i \in 1..Len(requests) : Admit(i)
    \/ \E i \in 1..Len(requests) : StartRun(i)
    \/ \E i \in 1..Len(requests) : FinishRun(i)

SpecCallers == InitCallers /\ [][NextCallers]_vars

(* ================= properties of the callers =========================== *)
Running(i) == requests[i].stage = "running"

\* C18: no two executions of auto_fix_and_create_pr_with_review for the same
\* repository and issue number are in progress at the same time.
C18_OneRunPerIssue ==
    \A i, j \in 1..Len(requests) :
        (i # j /\ Running(i) /\ Running(j)) => requests[i].issue # requests[j].issue

(* ================= proposal and selection in later passes ============== *)
\* the pass is past its ensure-proposal step (it fixed at least one file)
PastEnsure ==
    \/ pc \in {"run_ci", "compare", "review", "decide", "refine"}
    \/ Returned /\ result.site \in {640, 655}

C20_EmptySelection ==
    [][ (pc = "select" /\ files_to_change' = << >> /\ result'.site # 341)
            => IF iteration = 1
               THEN /\ pc' = "done" /\ result'.success = False
                    /\ gh' = gh /\ fixed_files' = << >>
               ELSE pc' = "refine" \/ current_spec' # current_spec ]_vars

(* ------------------------------- C21 ----------------------------------- *)
\* every selected file of the pass has been processed
FilesDone == Len(fixed_files) + Len(failed_files) = Len(files_to_change)
\* the pass has requested a proposal, run CI, compared or asked the reviewer
PassWentOn ==
    pr_call.requested \/ ci_after # EmptyDict \/ compared \/ reviewed

\* C21 as a step: a pass that fixed no file continues with the next pass, or,
\* when it is the last permitted one, returns FAILED with the failed files;
\* a pass that fixed a file goes to the proposal step and from there to CI
C21_Step ==
    /\ pc = "files" /\ FilesDone /\ fixed_files = << >> =>
         IF iteration < max_iterations
         THEN pc' = "loop" /\ result' = NoResult
         ELSE /\ pc' = "done"
              /\ result'.success = False
              /\ "failed_files" \in result'.keys
              /\ result'.site = 509
    /\ pc = "files" /\ FilesDone /\ fixed_files # << >> => pc' = "ensure_pr"
    /\ pc = "ensure_pr" => pc' = "run_ci"
    /\ pc = "run_ci" => pc' = "compare" /\ ci_after' # EmptyDict
    /\ pc' \in {"ensure_pr", "run_ci"} => fixed_files' # << >>

\* C21: an iteration that fixed no file is not fatal unless it is the last
\* permitted one (then the run fails with the list of failed files), and it
\* requests no proposal, runs no CI and asks for no review; an iteration that
\* fixed at least one file always goes on to the proposal step and to CI,
\* also when other files failed.
C21_ZeroFixedIteration ==
    /\ [](fixed_files = << >> => ~PassWentOn)
    /\ [][C21_Step]_vars

\* CI has run in a pass in which one file was fixed and another failed
C21_Witness ==
    /\ pc = "compare"
    /\ fixed_files # << >>
    /\ failed_files # << >>
    /\ ci_after # EmptyDict

(* ---- one pass of the loop, its file loop taken request by request ------ *)
\* the content of every file on the default branch
BaseContent == NoCode
\* agno_system.fix_code (line 452): the content fixed under a technical spec
FixedCode(technical_spec, code) == Append(code, technical_spec)
\* the 'sha' of a contents answer (line 475) identifies the content
ShaOf(code) == [known |-> TRUE, of |-> code]
OnBranch(code) == [exists |-> TRUE, content |-> code]
\* a file on the branch when a pass starts: not there, as on the default
\* branch, or written by an earlier pass under an earlier technical spec
TreesAtStart ==
    [Paths -> {Absent, OnBranch(BaseContent), OnBranch(FixedCode(0, BaseContent))}]

\* some file of the branch holds what an earlier pass or run wrote
WrittenBefore(t) == \E p \in Paths : t[p].exists /\ t[p].content # BaseContent

DefaultBranch == "default_branch"
BranchName == "branch_name"

\* one entry of http
Called(call, index, path, ref, answer, sha, code) ==
    [call |-> call, index |-> index, path |-> path, ref |-> ref,
     answer |-> answer, sha |-> sha, code |-> code]

InitPass ==
    /\ pc = "for"
    /\ tree \in TreesAtStart
    /\ max_iterations = MaxIterations
    /\ ci_commands = {}
    /\ ci_before = UnknownSummary
    /\ iteration \in 1..MaxIterations
    /\ current_spec = iteration - 1
    /\ pr_number = NoPR
    /\ files_to_change \in ListsUpTo(MaxFiles) \ {<< >>}
    /\ fixed_files = << >>
    /\ failed_files = << >>
    /\ ci_after = EmptyDict
    /\ ci_match_result = EmptyDict
    /\ review_result = EmptyDict
    /\ gh = [branch |-> TRUE, ahead |-> WrittenBefore(tree), open |-> {},
             closed |-> {}, next |-> 1]
    /\ result = NoResult
    /\ select_calls = iteration
    /\ pr_posts = 0
    /\ compared = FALSE
    /\ reviewed = FALSE
    /\ decision = NoDecision
    /\ fixed_any = (iteration > 1 /\ WrittenBefore(tree))
    /\ regressed_any = FALSE
    /\ calls = << >>
    /\ sandbox = NoSandbox
    /\ resolver = NoResolver
    /\ outcomes = << >>
    /\ pr_call = NoCall
    /\ requests = << >>
    /\ http = << >>
    /\ current_code = NoCode
    /\ file_sha = NoSha
    /\ raised = NoException
    /\ comments = << >>
    /\ refinement = NoRefinement
    /\ agent = NoAgentCall
    /\ runs = NoRuns

PassUnchanged ==
    UNCHANGED <<args, iteration, current_spec, pr_number, files_to_change,
                ci_after, ci_match_result, review_result, result, select_calls,
                pr_posts, compared, reviewed, decision, regressed_any, calls,
                sandbox, resolver, pr_call, requests, agent, runs, noted>>

\* lines 444, 461 and 502: the file goes to failed_files
FileFailed(file_path, error) ==
    /\ failed_files' = Append(failed_files, [file |-> file_path, error |-> error])
    /\ outcomes' = Append(outcomes, error)
    /\ pc' = "for"
    /\ UNCHANGED fixed_files

\* line 434: the next file, or the end of the for loop
ForFile ==
    /\ pc = "for"
    /\ pc' = IF Len(fixed_files) + Len(failed_files) < Len(files_to_change)
             THEN "get" ELSE "files"
    /\ UNCHANGED <<fixed_files, failed_files, outcomes, file_locals, gh,
                   fixed_any>>
    /\ PassUnchanged

\* lines 436-448: the file's content is asked for with ref = default_branch
GetFile ==
    /\ pc = "get"
    /\ LET index == FileIndex(fixed_files, failed_files)
           file_path == files_to_change[index]
       IN  \E status \in {"200", "404"} :
            /\ http' = Append(http, Called("get_contents", index, file_path,
                                           DefaultBranch, status, NoSha, NoCode))
            /\ IF status # "200"
               THEN /\ FileFailed(file_path, "read_failed")
                    /\ UNCHANGED current_code
               ELSE /\ current_code' = BaseContent
                    /\ pc' = "fix"
                    /\ UNCHANGED <<fixed_files, failed_files, outcomes>>
    /\ UNCHANGED <<tree, file_sha, gh, fixed_any>>
    /\ PassUnchanged

\* lines 450-464
FixFile ==
    /\ pc = "fix"
    /\ LET index == FileIndex(fixed_files, failed_files)
           file_path == files_to_change[index]
       IN  \E success \in BOOLEAN :
            /\ http' = Append(http, Called("fix_code", index, file_path, "none",
                                           IF success THEN "success" ELSE "failure",
                                           NoSha, current_code))
            /\ IF ~success
               THEN FileFailed(file_path, "fix_failed")
               ELSE /\ pc' = "sha"
                    /\ UNCHANGED <<fixed_files, failed_files, outcomes>>
    /\ UNCHANGED <<tree, current_code, file_sha, gh, fixed_any>>
    /\ PassUnchanged

\* lines 466-480: the file's sha on the branch, None when it is not there;
\* any other answer raises and lines 500-502 catch it
GetFileSha ==
    /\ pc = "sha"
    /\ LET index == FileIndex(fixed_files, failed_files)
           file_path == files_to_change[index]
           found == IF tree[file_path].exists THEN "200" ELSE "404"
       IN  \E status \in {found, "500"} :
            /\ http' = Append(http, Called("get_contents", index, file_path,
                                           BranchName, status, NoSha, NoCode))
            /\ IF status = "500"
               THEN /\ FileFailed(file_path, "write_failed")
                    /\ UNCHANGED file_sha
               ELSE /\ file_sha' = IF status = "200"
                                   THEN ShaOf(tree[file_path].content) ELSE NoSha
                    /\ pc' = "put"
                    /\ UNCHANGED <<fixed_files, failed_files, outcomes>>
    /\ UNCHANGED <<tree, current_code, gh, fixed_any>>
    /\ PassUnchanged

\* lines 482-498: one PUT with the sha just read; any status other than 200
\* and 201 (a 409 conflict is one) raises and lines 500-502 catch it
PutFile ==
    /\ pc = "put"
    /\ LET index == FileIndex(fixed_files, failed_files)
           file_path == files_to_change[index]
           fixed_code == FixedCode(current_spec, current_code)
           \* updated, created, or refused: 409 when the sha sent is no longer
           \* the file's sha on the branch
           answers == IF file_sha.known THEN {"200", "409", "500"}
                      ELSE {"201", "500"}
       IN  \E status \in answers :
            /\ http' = Append(http, Called("put_contents", index, file_path,
                                           BranchName, status, file_sha, fixed_code))
            /\ IF status \notin {"200", "201"}
               THEN /\ FileFailed(file_path, "write_failed")
                    /\ UNCHANGED <<tree, gh, fixed_any>>
               ELSE /\ tree' = [tree EXCEPT ![file_path] = OnBranch(fixed_code)]
                    /\ gh' = [gh EXCEPT !.ahead = TRUE]
                    /\ fixed_any' = TRUE
                    /\ fixed_files' = Append(fixed_files, file_path)
                    /\ outcomes' = Append(outcomes, "ok")
                    /\ pc' = "for"
                    /\ UNCHANGED failed_files
    /\ UNCHANGED <<current_code, file_sha>>
    /\ PassUnchanged

NextPass ==
    \/ ForFile
    \/ GetFile
    \/ FixFile
    \/ GetFileSha
    \/ PutFile
    \/ AfterFiles
    \/ EnsureProposal
    \/ RunCI
    \/ CompareCI
    \/ Review
    \/ Decide

SpecPass == InitPass /\ [][NextPass]_vars

(* ------------------------------- C22 ----------------------------------- *)
\* the file the for loop is working on
FilePath == files_to_change[FileIndex(fixed_files, failed_files)]
\* what a read of the run's branch with fall-back to the default branch gives
BranchOrBase(file_path) ==
    IF tree[file_path].exists THEN tree[file_path].content ELSE BaseContent

\* C22: the content handed to fix_code for a file is the file's current
\* content on the run's branch, and the default branch's content only when the
\* file is not on the run's branch yet; so a file written in an earlier
\* iteration is fixed from what that iteration wrote.
C22_ReadsBranch ==
    pc = "fix" => current_code = BranchOrBase(FilePath)

(* ------------------------------- C23 ----------------------------------- *)
Puts(index) ==
    {k \in 1..Len(http) : http[k].call = "put_contents" /\ http[k].index = index}

\* C23: a write to a file that is on the branch carries the file's latest
\* known hash on the branch; a write rejected as a conflict is followed by a
\* new read and exactly one more write, and the file is recorded as failed
\* only after that second write failed too.
C23_WriteRetry ==
    /\ pc = "put" /\ tree[FilePath].exists =>
         file_sha = ShaOf(tree[FilePath].content)
    /\ \A k \in 1..Len(http) :
         http[k].call = "put_contents" /\ http[k].answer = "409"
           /\ http[k].index <= Len(outcomes)
           /\ k = SetMax(Puts(http[k].index))
         => Cardinality(Puts(http[k].index)) = 2

(* ------------------------------- C29 ----------------------------------- *)
\* the place of a call among the calls made for one file
CallRank(c) ==
    IF c.call = "get_contents" /\ c.ref = DefaultBranch THEN 1
    ELSE IF c.call = "fix_code" THEN 2
    ELSE IF c.call = "get_contents" THEN 3
    ELSE 4
\* the pass is past its file loop
AfterFileLoop ==
    pc \in {"files", "ensure_pr", "run_ci", "compare", "review", "decide",
            "refine", "loop", "done"}

C29_State ==
    /\ \A k \in 1..Len(http) :
         /\ http[k].index \in 1..Len(files_to_change)
         /\ http[k].path = files_to_change[http[k].index]
         /\ http[k].index <= Len(outcomes) + 1
    /\ \A j, k \in 1..Len(http) :
         j < k => \/ http[j].index < http[k].index
                  \/ /\ http[j].index = http[k].index
                     /\ CallRank(http[j]) < CallRank(http[k])
    /\ Len(outcomes) = Len(fixed_files) + Len(failed_files)
    /\ AfterFileLoop => Len(outcomes) = Len(files_to_change)
    /\ ci_after # EmptyDict \/ compared \/ reviewed => AfterFileLoop
    /\ pc = "run_ci" => ci_after = EmptyDict
    /\ pc = "review" => ~reviewed

C29_Step ==
    /\ ci_after' # ci_after => pc = "run_ci" /\ ci_after = EmptyDict
    /\ reviewed' # reviewed => pc = "review" /\ ~reviewed

\* C29: within one iteration the files are processed one after the other in
\* the order of the selection: every call made for file i (read, fix, write)
\* comes before the read of file i+1; CI starts only after the last file was
\* processed; and CI is executed and the reviewer is asked at most once.
C29_SequentialFiles ==
    /\ []C29_State
    /\ [][C29_Step]_vars

\* two files were processed, then CI ran once and the reviewer was asked once
C29_Witness ==
    /\ pc = "decide"
    /\ Len(outcomes) = 2
    /\ reviewed
    /\ ci_after # EmptyDict
    /\ \E j, k \in 1..Len(http) : http[j].index = 1 /\ http[k].index = 2

(* ------------------------------- C24 ----------------------------------- *)
\* the exceptions of a pass that say the credentials are missing or rejected:
\* get_installation_access_token raises, or GITHUB_TOKEN is not set (365-380)
AuthFaults == {"token"}

\* C24: when the credentials are rejected or missing during an iteration the
\* run ends at once with FAILED; no later iteration is started.
C24_AuthIsFatal ==
    raised \in AuthFaults => Returned /\ result.success = False

(* ------------------------------- C25 ----------------------------------- *)
\* the run was ended by a failed call: the selection failed (341), no file
\* could be fixed (509), an exception was caught (708)
AbortedByFailure == Returned /\ result.site \in {341, 509, 708}

\* C25: a failure of one external call (the select-files call, a file read, a
\* CI execution) shows as a failed step and does not end the run; such
\* failures end the run only when, in the last permitted iteration, they keep
\* every file from succeeding.
C25_FailuresDoNotAbort ==
    /\ AbortedByFailure => iteration = max_iterations /\ fixed_files = << >>
    /\ \A i \in 1..Len(outcomes) :
         outcomes[i] # "ok" => \E j \in 1..Len(failed_files) :
                                  failed_files[j].file = files_to_change[i]
    /\ compared => HasSummary(ci_after)

(* ------------------------------- C26 ----------------------------------- *)
C26_Step ==
    /\ current_spec' # current_spec =>
         /\ pc = "refine" /\ pc' = "loop"
         /\ decision = "REFINE"
         /\ ~Approved(review_result)
         /\ iteration < max_iterations
         /\ raised' = NoException
         /\ refinement'.called
         /\ refinement'.technical_spec = current_spec
         /\ refinement'.issues = (IF "issues" \in DOMAIN review_result
                                  THEN review_result.issues ELSE << >>)
         /\ refinement'.recommendations =
              (IF "recommendations" \in DOMAIN review_result
               THEN review_result.recommendations ELSE << >>)
    /\ pc = "refine" /\ raised' = NoException =>
         current_spec' # current_spec /\ pc' = "loop"
    /\ pc = "loop" /\ pc' = "select" => current_spec' = current_spec

C27_BaselineFixed ==
    /\ [](compared =>
            ci_match_result = check_ci_results_match(ci_before, ci_after))
    /\ [][ci_before' = ci_before /\ ci_commands' = ci_commands]_vars

\* the second iteration has compared its CI results with a baseline that has
\* results
C27_Witness ==
    /\ iteration = 2
    /\ compared
    /\ SummaryValue(ci_before, "build_passed") # None
    /\ ci_after # ci_before

(* ------------------------------- C28 ----------------------------------- *)
\* the branch name without the issue number
BranchNameOf_NoNumber(issue_number) == "fix/issue"

\* lines 391-394
BranchNameOf(issue_number) ==
    LET branch_name == "fix/issue-" \o ToString(issue_number)
    IN  IF Len(branch_name) > 200 THEN SubSeq(branch_name, 1, 200)
        ELSE branch_name

\* the pass is past lines 396-428
BranchPrepared ==
    pc \in {"files", "ensure_pr", "run_ci", "compare", "review", "decide", "refine"}

C28_Step ==
    /\ gh.branch => gh'.branch
    /\ gh'.branch # gh.branch => pc = "prepare"

\* C28: the branch name is a function of the issue number alone
\* (fix/issue-<n>), so it is the same in every iteration and differs for
\* different issues; the branch is created at most once in a run, only when
\* it does not exist, every later iteration uses it, and the loop never
\* deletes it.
C28_OneBranch ==
    /\ [](/\ \A m, n \in Issues : m # n => BranchNameOf(m) # BranchNameOf(n)
          /\ \A n \in Issues : BranchNameOf(n) = "fix/issue-" \o ToString(n)
          /\ BranchPrepared => gh.branch)
    /\ [][C28_Step]_vars

\* the second iteration works on the branch of the first
C28_Witness ==
    /\ iteration = 2
    /\ pc = "files"
    /\ gh.branch
    /\ fixed_any

(* ------------------------------- C30 ----------------------------------- *)
\* a proposal is open for the branch
ProposalExists == gh.open # {}

C30_Step ==
    /\ pc = "decide" /\ Approved(review_result) =>
         pc' = "done" /\ decision' = "ACCEPT"
    /\ pc # "done"

UsableAnswer(answer) ==
    /\ answer.kind = "json_object"
    /\ answer.syntax_check_command # None \/ answer.build_command # None

\* C31: whenever inference fails or yields no usable command (the model call
\* fails, its answer cannot be parsed, or the parsed answer has no
\* syntax-check command) determine_ci_commands returns what
\* determine_ci_commands_heuristic returns, with success True, not an error.
C31_HeuristicFallback ==
    resolver.called /\ resolver.fetched /\ ~UsableAnswer(resolver.answer) =>
      /\ resolver.result.success = True
      /\ resolver.result =
           determine_ci_commands_heuristic(resolver.structure, resolver.has_tests)

(* ------- src/agents/system.py: determine_files_to_change, alone --------- *)
\* longest list or text the model answers with
MaxItems == 2

\* str.strip() (line 96), for blanks
RECURSIVE Strip(_)
Strip(s) ==
    IF Len(s) = 0 THEN s
    ELSE IF SubSeq(s, 1, 1) = " " THEN Strip(SubSeq(s, 2, Len(s)))
    ELSE IF SubSeq(s, Len(s), Len(s)) = " " THEN Strip(SubSeq(s, 1, Len(s) - 1))
    ELSE s

\* the values of a JSON list: strings, among them an empty and a blank one,
\* a number, null
JsonValues ==
    [type : {"str"}, value : {"a.py", "b.py", "", " "}]
        \cup {[type |-> "num", value |-> "1"], [type |-> "null", value |-> "null"]}

\* line 96: isinstance(f, str) and f.strip()
IsPathEntry(v) == v.type = "str" /\ Strip(v.value) # ""

\* a piece of an answer that is no JSON: a word, in quotes or not
Words == [quoted : BOOLEAN, text : {"a.py", "b.py", "notes", ".py"}]

\* line 112: quote, one or more characters, a dot, an extension (two of
\* the listed ones here), quote
MatchesFilePattern(w) ==
    /\ w.quoted
    /\ \E e \in {"py", "md"} :
         /\ Len(w.text) > Len(e) + 1
         /\ SubSeq(w.text, Len(w.text) - Len(e), Len(w.text)) = "." \o e

Values(seq) == [i \in 1..Len(seq) |-> seq[i].value]
Texts(seq) == [i \in 1..Len(seq) |-> seq[i].text]

\* nothing is looked for in an answer that is no JSON
PathsInText_None(words) == << >>

\* lines 112-114
PathsInText(words) == Texts(SelectSeq(words, MatchesFilePattern))

SeqsUpTo(S, n) == UNION {[1..k -> S] : k \in 0..n}

\* what the model answers (inside its code fence, if it sends one, lines
\* 87-90): the request raises; a JSON list; JSON that is no list; other text
SelectReplies ==
    {[kind |-> "raise"], [kind |-> "json_other"]}
        \cup [kind : {"json_list"}, items : SeqsUpTo(JsonValues, MaxItems)]
        \cup [kind : {"text"}, words : SeqsUpTo(Words, MaxItems)]

\* lines 57-132
determine_files_to_change(reply) ==
    IF reply.kind = "raise"
    THEN [success |-> False, files |-> << >>]
    ELSE IF reply.kind = "json_list"
    THEN [success |-> True, files |-> Values(SelectSeq(reply.items, IsPathEntry))]
    ELSE IF reply.kind = "json_other"
    THEN [success |-> True, files |-> << >>]
    ELSE [success |-> True, files |-> PathsInText(reply.words)]

InitSelect ==
    /\ pc = "select_call"
    /\ max_iterations = 1
    /\ ci_commands = {}
    /\ ci_before = UnknownSummary
    /\ iteration = 0
    /\ current_spec = 0
    /\ pr_number = NoPR
    /\ files_to_change = << >>
    /\ fixed_files = << >>
    /\ failed_files = << >>
    /\ ci_after = EmptyDict
    /\ ci_match_result = EmptyDict
    /\ review_result = EmptyDict
    /\ gh \in {GhMerged}
    /\ result = NoResult
    /\ select_calls = 0
    /\ pr_posts = 0
    /\ compared = FALSE
    /\ reviewed = FALSE
    /\ decision = NoDecision
    /\ fixed_any = FALSE
    /\ regressed_any = FALSE
    /\ calls = << >>
    /\ sandbox = NoSandbox
    /\ resolver = NoResolver
    /\ outcomes = << >>
    /\ pr_call = NoCall
    /\ requests = << >>
    /\ tree = NoTree
    /\ http = << >>
    /\ current_code = NoCode
    /\ file_sha = NoSha
    /\ raised = NoException
    /\ comments = << >>
    /\ refinement = NoRefinement
    /\ agent \in [called : {FALSE}, reply : SelectReplies]
    /\ runs = NoRuns

\* main.py lines 337-347: files_result = determine_files_to_change(...)
CallSelect ==
    /\ pc = "select_call"
    /\ LET files_result == determine_files_to_change(agent.reply)
       IN  /\ agent' = [called |-> TRUE, reply |-> agent.reply,
                        result |-> files_result]
           /\ files_to_change' = files_result.files
    /\ pc' = "select_done"
    /\ UNCHANGED <<args, iteration, current_spec, pr_number, fixed_files,
                   failed_files, ci_after, ci_match_result, review_result, gh,
                   result, observed, calls, sandbox, resolver, outcomes,
                   pr_call, requests, runs, file_locals, noted>>

NextSelect == CallSelect

SpecSelect == InitSelect /\ [][NextSelect]_vars

(* ------------------------------- C32 ----------------------------------- *)
\* the k-th smallest member of a set of positions
KthOf(S, k) == CHOOSE i \in S : Cardinality({j \in S : j <= i}) = k
\* seq is made of the elements of from at the positions S, in their order
PicksInOrder(seq, from, S) ==
    /\ Len(seq) = Cardinality(S)
    /\ \A k \in 1..Len(seq) : seq[k] = from[KthOf(S, k)]

\* C32: an answer that is no valid JSON gives the quoted file-like paths of
\* its text in their order of appearance; when there are none, or the JSON is
\* valid and no list, the result is the empty list; in all these cases
\* success is True; a valid JSON list is returned without its non-string and
\* blank entries, in its order.
C32_SelectionParsing ==
    agent.called =>
      LET reply == agent.reply
          files == agent.result.files
      IN  /\ reply.kind # "raise" => agent.result.success = True
          /\ reply.kind = "text" =>
               PicksInOrder(files, Texts(reply.words),
                            {i \in 1..Len(reply.words) :
                               /\ reply.words[i].quoted
                               /\ reply.words[i].text \in {"a.py", "b.py"}})
          /\ reply.kind = "json_other" => files = << >>
          /\ reply.kind = "json_list" =>
               PicksInOrder(files, Values(reply.items),
                            {i \in 1..Len(reply.items) :
                               reply.items[i].value \in {"a.py", "b.py"}})

\* an answer that is no JSON, with a word that is no path before a quoted path
C32_Witness ==
    /\ agent.called
    /\ agent.reply.kind = "text"
    /\ Len(agent.reply.words) = 2
    /\ ~agent.reply.words[1].quoted
    /\ agent.result.files = <<"b.py">>

(* ------------------------------- C33 ----------------------------------- *)
\* the step in which a call inside the pass raises
Raises == raised = NoException /\ raised' # NoException

C33_Step ==
    /\ Raises =>
         /\ current_spec' = current_spec
         /\ pr_number' = pr_number
         /\ iteration' = iteration
         /\ IF iteration < max_iterations
            THEN pc' = "loop" /\ result' = NoResult
            ELSE /\ pc' = "done"
                 /\ result'.site = 708
                 /\ result'.success = False
                 /\ "error" \in result'.keys
                 /\ result'.iteration = iteration
    /\ raised # NoException /\ pc = "loop" =>
         /\ pc' = "select"
         /\ iteration' = iteration + 1
         /\ current_spec' = current_spec
         /\ pr_number' = pr_number

WriteSucceeded(i) ==
    \E k \in 1..Len(http) :
        /\ http[k].call = "put_contents"
        /\ http[k].index = i
        /\ http[k].answer \in {"200", "201"}
FailedInOrder == [k \in 1..Len(failed_files) |-> failed_files[k].file]
\* the entries of the selection the for loop is through with
ThroughWith == 1..(Len(fixed_files) + Len(failed_files))

\* C34: when the for loop over the selection ends, every entry of the
\* selection is in exactly one of fixed_files and failed_files, both lists
\* are in the order of the selection, and fixed_files holds exactly the
\* entries whose write to the branch was answered with success.
C34_Partition ==
    /\ Len(fixed_files) + Len(failed_files) <= Len(files_to_change)
    /\ AfterFileLoop =>
         Len(fixed_files) + Len(failed_files) = Len(files_to_change)
    /\ PicksInOrder(fixed_files, files_to_change,
                    {i \in ThroughWith : WriteSucceeded(i)})
    /\ PicksInOrder(FailedInOrder, files_to_change,
                    {i \in ThroughWith : ~WriteSucceeded(i)})

\* two files selected: the first failed, the second was written
C34_Witness ==
    /\ AfterFileLoop
    /\ Len(files_to_change) = 2
    /\ files_to_change[1] # files_to_change[2]
    /\ FailedInOrder = <<files_to_change[1]>>
    /\ fixed_files = <<files_to_change[2]>>

(* ------------------------------- C35 ----------------------------------- *)
\* the clone of the call failed or hit its timeout
CloneFailed ==
    /\ sandbox.called
    /\ sandbox.sb.mkdtemp = "ok" /\ sandbox.out.token = "ok"
    /\ sandbox.out.clone # "ok"
RanCommand(c) == \E i \in 1..Len(sandbox.ran) : sandbox.ran[i] = c

\* C35: a timeout of one command, or a failed clone, discards the whole
\* execution: no later command is run, the value returned has success False
\* and neither results nor summary, and the loop then compares three unknown
\* checks, so the pass is never reported as a regression.
C35_TimeoutDiscardsAll ==
    /\ CloneFailed => sandbox.ran = << >>
    /\ \A c \in CommandNames :
         TimedOut(c) =>
           /\ RanCommand(c)
           /\ \A d \in CommandNames : c \in RunsBefore(d) => ~RanCommand(d)
    /\ CloneFailed \/ (\E c \in CommandNames : TimedOut(c)) =>
         /\ pc = "ci_ran" =>
              /\ DictGet(ci_after, "success") = False
              /\ DOMAIN ci_after = {"success", "error"}
         /\ pc = "ci_done" =>
              /\ \A c \in CommandNames : SummaryValue(ci_after, CheckKey(c)) = None
              /\ ci_match_result.match = True
              /\ "issues" \notin DOMAIN ci_match_result

\* the syntax check passed before and failed in this execution, whose test
\* command then timed out: nothing is reported
C35_Witness ==
    /\ pc = "ci_done"
    /\ TimedOut("test_command")
    /\ sandbox.out.build = "fail"
    /\ sandbox.ran = <<"build_command", "test_command">>
    /\ "quality_command" \in ci_commands
    /\ SummaryValue(ci_before, "build_passed") = True
    /\ ci_match_result.match = True

(* ------------- two runs of the loop for one issue ---------------------- *)
\* Both runs work on the branch fix/issue-<n> (line 392) and on one file that
\* is on the default branch. Each request of a run is a step of its own, so
\* the requests of the two runs interleave in every order; the platform
\* answers every request.
RunIds == {1, 2}
ThePath == "a.py"

\* the branch is cut from the default branch: its files are those of the
\* default branch
TreeOfBase == [p \in Paths |-> OnBranch(BaseContent)]

\* the sha of a file on the branch, as GET /contents?ref=branch gives it
ShaOnBranch(t, path) ==
    IF t[path].exists THEN ShaOf(t[path].content) ELSE NoSha

\* PUT /contents : 201 creates the file, 200 updates it when the sha sent is
\* the file's sha on the branch, 409 when it is another one, 422 when the
\* file is there and no sha was sent
PutContents(t, path, sha) ==
    IF ~t[path].exists THEN (IF sha.known THEN 409 ELSE 201)
    ELSE IF ~sha.known THEN 422
    ELSE IF sha = ShaOf(t[path].content) THEN 200
    ELSE 409

\* line 326, and the start of a pass
RunAtStart ==
    [pc |-> "ref", iteration |-> 1, pr_number |-> NoPR, file_sha |-> NoSha,
     fixed |-> FALSE, raised |-> FALSE, seen |-> Absent, overwrote |-> Absent]

InitRuns ==
    /\ pc = "runs"
    /\ max_iterations = MaxIterations
    /\ ci_commands = {}
    /\ ci_before = UnknownSummary
    /\ iteration = 0
    /\ current_spec = 0
    /\ pr_number = NoPR
    /\ files_to_change = <<ThePath>>
    /\ fixed_files = << >>
    /\ failed_files = << >>
    /\ ci_after = EmptyDict
    /\ ci_match_result = EmptyDict
    /\ review_result = EmptyDict
    /\ gh \in {g \in GhInitial : g.open = {} /\ g.closed = {}}
    /\ result = NoResult
    /\ select_calls = 0
    /\ pr_posts = 0
    /\ compared = FALSE
    /\ reviewed = FALSE
    /\ decision = NoDecision
    /\ fixed_any = FALSE
    /\ regressed_any = FALSE
    /\ calls = << >>
    /\ sandbox = NoSandbox
    /\ resolver = NoResolver
    /\ outcomes = << >>
    /\ pr_call = NoCall
    /\ requests = << >>
    /\ tree = IF gh.branch THEN TreeOfBase ELSE NoTree
    /\ http = << >>
    /\ current_code = NoCode
    /\ file_sha = NoSha
    /\ raised = NoException
    /\ comments = << >>
    /\ refinement = NoRefinement
    /\ agent = NoAgentCall
    /\ runs = [r \in RunIds |-> RunAtStart]

RunsUnchanged ==
    UNCHANGED <<pc, args, iteration, current_spec, pr_number, locals, result,
                observed, calls, sandbox, resolver, outcomes, pr_call, requests,
                agent, http, current_code, file_sha, noted>>

\* lines 399-404: the branch is looked up
GetRef(r) ==
    /\ runs[r].pc = "ref"
    /\ runs' = [runs EXCEPT ![r].pc = IF gh.branch THEN "get" ELSE "post_ref"]
    /\ UNCHANGED <<gh, tree>>
    /\ RunsUnchanged

\* lines 405-428: the branch is created; 201 and 422 are both accepted
CreateRef(r) ==
    /\ runs[r].pc = "post_ref"
    /\ LET branch_response == PostRef(gh)
       IN  /\ gh' = branch_response.gh
           /\ tree' = IF branch_response.status = 201 THEN TreeOfBase ELSE tree
    /\ runs' = [runs EXCEPT ![r].pc = "get"]
    /\ RunsUnchanged

\* lines 436-464: the content is read from the default branch and handed to
\* fix_code; seen is what the file was on the run's branch at that moment
ReadContent(r) ==
    /\ runs[r].pc = "get"
    /\ runs' = [runs EXCEPT ![r].seen = tree[ThePath], ![r].pc = "sha"]
    /\ UNCHANGED <<gh, tree>>
    /\ RunsUnchanged

\* lines 466-480: the file's sha on the branch is read
ReadSha(r) ==
    /\ runs[r].pc = "sha"
    /\ runs' = [runs EXCEPT ![r].file_sha = ShaOnBranch(tree, ThePath),
                            ![r].pc = "put"]
    /\ UNCHANGED <<gh, tree>>
    /\ RunsUnchanged

\* lines 482-502: the PUT; a status other than 200 and 201 raises and the
\* file goes to failed_files; overwrote is what the write replaced
WriteFile(r) ==
    /\ runs[r].pc = "put"
    /\ LET status == PutContents(tree, ThePath, runs[r].file_sha)
           fixed_code == FixedCode(current_spec, BaseContent)
       IN  IF status \in {200, 201}
           THEN /\ tree' = [tree EXCEPT ![ThePath] = OnBranch(fixed_code)]
                /\ gh' = [gh EXCEPT !.ahead = TRUE]
                /\ runs' = [runs EXCEPT ![r].fixed = TRUE,
                                        ![r].overwrote = tree[ThePath],
                                        ![r].pc = "after_files"]
           ELSE /\ runs' = [runs EXCEPT ![r].fixed = FALSE,
                                        ![r].overwrote = runs[r].seen,
                                        ![r].pc = "after_files"]
                /\ UNCHANGED <<gh, tree>>
    /\ RunsUnchanged

\* lines 504-517: nothing fixed ends the pass (and the run, in the last
\* pass); otherwise the proposal is asked for in pass 1 when none is held
AfterFilesOf(r) ==
    /\ runs[r].pc = "after_files"
    /\ runs' = IF ~runs[r].fixed
               THEN IF runs[r].iteration >= max_iterations
                    THEN [runs EXCEPT ![r].pc = "returned"]
                    ELSE [runs EXCEPT ![r].pc = "ref",
                                      ![r].iteration = NextIteration(runs[r].iteration)]
               ELSE IF NeedsProposal(runs[r].iteration, runs[r].pr_number)
                    THEN [runs EXCEPT ![r].pc = "branch_check"]
                    ELSE [runs EXCEPT ![r].pc = "ensured"]
    /\ UNCHANGED <<gh, tree>>
    /\ RunsUnchanged

\* branches.py lines 119-145: the branch is looked up and created if missing
BranchCheck(r) ==
    /\ runs[r].pc = "branch_check"
    /\ gh' = IF gh.branch THEN gh ELSE PostRef(gh).gh
    /\ tree' = IF gh.branch THEN tree ELSE TreeOfBase
    /\ runs' = [runs EXCEPT ![r].pc = "post_pull"]
    /\ RunsUnchanged

\* branches.py lines 147-169 and main.py lines 532-534
CreatePull(r) ==
    /\ runs[r].pc = "post_pull"
    /\ LET pr_response == PostPull(gh)
       IN  /\ gh' = pr_response.gh
           /\ runs' = IF pr_response.status = 201
                      THEN [runs EXCEPT ![r].pr_number = pr_response.number,
                                        ![r].pc = "ensured"]
                      ELSE [runs EXCEPT ![r].pc = "lookup"]
    /\ UNCHANGED tree
    /\ RunsUnchanged

\* branches.py lines 172-231 after a 422: the open proposal of the branch,
\* else its latest one, is returned; the call raises when there is none, and
\* main.py lines 538-540 catch that
LookUpPull(r) ==
    /\ runs[r].pc = "lookup"
    /\ LET existing_prs == ListOpen(gh)
           existing_prs_all == ListAll(gh)
       IN  runs' = IF gh.branch /\ existing_prs # << >>
                   THEN [runs EXCEPT ![r].pr_number = existing_prs[1],
                                     ![r].pc = "ensured"]
                   ELSE IF gh.branch /\ existing_prs_all # << >>
                   THEN [runs EXCEPT ![r].pr_number = existing_prs_all[1],
                                     ![r].pc = "ensured"]
                   ELSE [runs EXCEPT ![r].raised = TRUE, ![r].pc = "ensured"]
    /\ UNCHANGED <<gh, tree>>
    /\ RunsUnchanged

NextRuns ==
    \/ \E r \in RunIds : GetRef(r)
    \/ \E r \in RunIds : CreateRef(r)
    \/ \E r \in RunIds : ReadContent(r)
    \/ \E r \in RunIds : ReadSha(r)
    \/ \E r \in RunIds : WriteFile(r)
    \/ \E r \in RunIds : AfterFilesOf(r)
    \/ \E r \in RunIds : BranchCheck(r)
    \/ \E r \in RunIds : CreatePull(r)
    \/ \E r \in RunIds : LookUpPull(r)

SpecRuns == InitRuns /\ [][NextRuns]_vars

(* ------------------------------- C36 ----------------------------------- *)
\* the run is through the proposal step of a pass
Ensured(r) == runs[r].pc = "ensured"

\* C36: with two runs for one issue interleaved in any order, at most one
\* proposal is created for the branch, neither run's branch or proposal
\* request fails because the other run created the branch or the proposal,
\* and the two runs leave the proposal step holding the same pr_number.
C36_TwoRuns ==
    /\ Cardinality(gh.open) <= 1 /\ gh.closed = {} /\ gh.next <= 2
    /\ \A r \in RunIds : ~runs[r].raised
    /\ Ensured(1) /\ Ensured(2) => runs[1].pr_number = runs[2].pr_number

(* ------------------------------- C37 ----------------------------------- *)
\* C37: a write of a run replaces, on the run's branch, the file as it was
\* when the run read the content it handed to fix_code: when another writer
\* changed the file in between, the write is rejected as a conflict.
C37_NoLostUpdate ==
    \A r \in RunIds :
        runs[r].pc = "after_files" /\ runs[r].fixed =>
            runs[r].overwrote = runs[r].seen

(* --------- src/agents/reviewer.py: ReviewerAgent.process, alone -------- *)
\* str.lower() of one character
LowerChar(c) ==
    LET UpperCase == "ABCDEFGHIJKLMNOPQRSTUVWXYZ"
        LowerCase == "abcdefghijklmnopqrstuvwxyz"
    IN  IF \E i \in 1..Len(UpperCase) : SubSeq(UpperCase, i, i) = c
        THEN LET i == CHOOSE j \in 1..Len(UpperCase) : SubSeq(UpperCase, j, j) = c
             IN  SubSeq(LowerCase, i, i)
        ELSE c
\* str.lower()
RECURSIVE Lower(_)
Lower(s) ==
    IF Len(s) = 0 THEN s
    ELSE LowerChar(SubSeq(s, 1, 1)) \o Lower(SubSeq(s, 2, Len(s)))
\* w in s
Contains(s, w) ==
    \E i \in 1..(Len(s) - Len(w) + 1) : SubSeq(s, i, i + Len(w) - 1) = w

\* line 138: 'approved' and the two Russian words for accepted and approved,
\* written here in Latin letters
VerdictWords == {"approved", "prinyato", "odobreno"}

\* the words are looked for in the text as it is
HasVerdictWord_CaseSensitive(review_text) ==
    \E w \in VerdictWords : Contains(review_text, w)

\* line 138
HasVerdictWord(review_text) ==
    \E w \in VerdictWords : Contains(Lower(review_text), w)

\* JSON values of the 'approved' field
JsonFalse == [type |-> "bool", value |-> "false"]
JsonTrue == [type |-> "bool", value |-> "true"]
ApprovedValues ==
    {JsonFalse, JsonTrue,
     [type |-> "null", value |-> "null"],
     [type |-> "str", value |-> "yes"], [type |-> "str", value |-> ""],
     [type |-> "num", value |-> "1"], [type |-> "num", value |-> "0"]}
\* Python's truth value of a JSON value
JsonTruthy(v) ==
    CASE v.type = "bool" -> v.value = "true"
      [] v.type = "str" -> v.value # ""
      [] v.type = "num" -> v.value # "0"
      [] OTHER -> FALSE

\* the model's answer: the request raises, or a text that may put its main
\* part into a code fence, with words outside of it. The main part is a JSON
\* object (with or without the 'approved' field), another JSON value, or
\* text that is no JSON.
ReviewReplies ==
    LET Fences == {"none", "json", "plain"}
        ReviewTexts == {"APPROVED", "Not approved", "Prinyato", "odobreno", "rejected"}
    IN  {[kind |-> "raise"]}
            \cup [kind : {"json_object"}, fence : Fences, has_approved : {TRUE},
                  approved : ApprovedValues]
            \cup [kind : {"json_object"}, fence : Fences, has_approved : {FALSE},
                  approved : {JsonTrue}]
            \cup [kind : {"json_other"}, fence : Fences]
            \cup {r \in [kind : {"text"}, fence : Fences,
                         outside : {"", "Approved? "}, text : ReviewTexts] :
                    r.fence = "none" => r.outside = ""}

\* lines 114-120: with a fence only what is inside of it is looked at
ReviewText(reply) ==
    IF reply.fence = "none" THEN reply.outside \o reply.text ELSE reply.text

\* lines 105-153
process(reply) ==
    LET ReviewFailure ==
            [success |-> False, approved |-> JsonFalse, error |-> "reviewer failed"]
        Verdict(approved, reason) ==
            [success |-> True, approved |-> approved, reason |-> reason,
             issues |-> << >>, recommendations |-> << >>]
    IN  \* lines 146-153: the request raised
        IF reply.kind = "raise" THEN ReviewFailure
        \* lines 123-132
        ELSE IF reply.kind = "json_object"
        THEN Verdict(IF reply.has_approved THEN reply.approved ELSE JsonFalse, "reason")
        \* line 124: a list, string or number has no get; lines 146-153
        ELSE IF reply.kind = "json_other" THEN ReviewFailure
        \* lines 133-144
        ELSE Verdict(IF HasVerdictWord(ReviewText(reply)) THEN JsonTrue ELSE JsonFalse,
                     ReviewText(reply))

\* the verdict as the loop reads it: review_result.get('approved') as a
\* truth value (lines 579, 617)
AsRead(verdict) ==
    [verdict EXCEPT !.approved = PyBool(JsonTruthy(verdict.approved))]

InitReview ==
    /\ pc = "review"
    /\ max_iterations = MaxIterations
    /\ ci_commands = {}
    /\ ci_before = UnknownSummary
    /\ iteration \in 1..MaxIterations
    /\ current_spec = iteration - 1
    /\ pr_number = NoPR
    /\ files_to_change = <<"a.py">>
    /\ fixed_files = <<"a.py">>
    /\ failed_files = << >>
    /\ ci_after = UnknownSummary
    /\ ci_match_result = check_ci_results_match(ci_before, ci_after)
    /\ review_result = EmptyDict
    /\ gh \in GhPushed
    /\ result = NoResult
    /\ select_calls = iteration
    /\ pr_posts = 0
    /\ compared = TRUE
    /\ reviewed = FALSE
    /\ decision = NoDecision
    /\ fixed_any = TRUE
    /\ regressed_any = FALSE
    /\ calls = << >>
    /\ sandbox = NoSandbox
    /\ resolver = NoResolver
    /\ outcomes = <<"ok">>
    /\ pr_call = NoCall
    /\ requests = << >>
    /\ tree = NoTree
    /\ http = << >>
    /\ current_code = NoCode
    /\ file_sha = NoSha
    /\ raised = NoException
    /\ comments = << >>
    /\ refinement = NoRefinement
    /\ agent \in [called : {FALSE}, reply : ReviewReplies]
    /\ runs = NoRuns

\* main.py lines 566-583: the reviewer is called and its verdict rechecked
CallReviewer ==
    /\ pc = "review"
    /\ LET verdict == process(agent.reply)
       IN  /\ agent' = [called |-> TRUE, reply |-> agent.reply, result |-> verdict]
           /\ review_result' = RecheckedVerdict(AsRead(verdict), ci_match_result)
    /\ reviewed' = TRUE
    /\ pc' = "decide"
    /\ UNCHANGED <<args, iteration, current_spec, pr_number, files_to_change,
                   fixed_files, failed_files, ci_after, ci_match_result, gh,
                   result, select_calls, pr_posts, compared, decision,
                   fixed_any, regressed_any, calls, sandbox, resolver, outcomes,
                   pr_call, requests, runs, file_locals, noted>>

NextReview == CallReviewer \/ Decide

SpecReview == InitReview /\ [][NextReview]_vars

(* ------------------------------- C38 ----------------------------------- *)
\* the answers that are no JSON and hold one of the three words, in any case
WithVerdictWord == {"APPROVED", "Not approved", "Prinyato", "odobreno"}

\* C38: an answer that is a JSON object is approved exactly when its
\* 'approved' field is there and truthy; an answer that is no JSON is
\* approved exactly when its text (what is inside its code fence, when it
\* has one) holds one of the three words in any case; a failed reviewer call
\* gives success False and approved False, and the loop then refines or
\* fails and never accepts.
C38_VerdictExtraction ==
    agent.called =>
      LET reply == agent.reply
          verdict == agent.result
      IN  /\ reply.kind = "json_object" =>
               /\ verdict.success = True
               /\ JsonTruthy(verdict.approved) <=>
                    /\ reply.has_approved
                    /\ reply.approved \in
                         {JsonTrue, [type |-> "str", value |-> "yes"],
                          [type |-> "num", value |-> "1"]}
          /\ reply.kind = "text" =>
               /\ verdict.success = True
               /\ JsonTruthy(verdict.approved) <=> reply.text \in WithVerdictWord
          /\ reply.kind = "raise" =>
               /\ verdict.success = False
               /\ verdict.approved = JsonFalse
               /\ decision \in {NoDecision, "REFINE", "FAIL"}
               /\ pc = "done" => result.success = False

\* the reviewer call failed in a pass that is not the last: the loop refines
C38_Witness ==
    /\ agent.called
    /\ agent.reply.kind = "raise"
    /\ decision = "REFINE"
    /\ pc = "refine"

(* ----- get_repository_structure and what determine_ci_commands reads ---- *)
\* the files and directories of a repository, as the contents endpoint
\* lists them (type 'file' or 'dir')
Repositories ==
    LET TestsDir == [path |-> "tests", type |-> "dir"]
        TestFile == [path |-> "tests/test_app.py", type |-> "file"]
    IN  {repo \in SUBSET {[path |-> "app.py", type |-> "file"], TestsDir, TestFile,
                          [path |-> "pytest.ini", type |-> "file"]} :
            TestFile \in repo => TestsDir \in repo}

\* number of directories above a path
Depth(path) == Cardinality({i \in 1..Len(path) : SubSeq(path, i, i) = "/"})

\* src/github/api.py lines 97-169, get_tree_recursive with its children laid
\* out flat: files down to max_depth, directories above max_depth; a listing
\* that is not answered 200 (the branch 'main' is missing) gives no entry; an
\* exception inside gives success False
get_repository_structure(repo, outcome, max_depth) ==
    IF outcome = "network"
    THEN [success |-> False, error |-> "error", structure |-> {}]
    ELSE [success |-> True,
          structure |-> IF outcome = "no_main" THEN {}
                        ELSE {e \in repo :
                                IF e.type = "file" THEN Depth(e.path) <= max_depth
                                ELSE Depth(e.path) < max_depth},
          branch |-> "main"]

\* main.py line 1214: files = repo_structure.get('files', [])
FilesOf(repo_structure) ==
    IF "files" \in DOMAIN repo_structure THEN repo_structure.files ELSE {}
\* main.py line 1213: key_files = repo_structure.get('key_files', {})
KeyFilesOf(repo_structure) ==
    IF "key_files" \in DOMAIN repo_structure THEN repo_structure.key_files ELSE {}

\* main.py lines 1161-1164
test_patterns ==
    {"test", "tests", "spec", "specs", "__test__", "__tests__",
     "test_", "_test", ".test.", ".spec."}
\* main.py lines 1185-1186
test_config_files ==
    {"pytest.ini", "tox.ini", "jest.config.js", "jest.config.ts",
     "vitest.config.js", "vitest.config.ts", ".mocharc.js", ".mocharc.json"}
EndsWith(s, w) == Len(s) >= Len(w) /\ SubSeq(s, Len(s) - Len(w) + 1, Len(s)) = w
MatchesTestPattern(path) == \E p \in test_patterns : Contains(Lower(path), p)
IsTestConfig(path) == \E c \in test_config_files : EndsWith(path, c)

\* what check_tests_exist (lines 1166-1190) and the heuristic (lines
\* 1357-1414) find in files and key_files
StructureRead(files, key_files) ==
  LET KeyNames == {k.name : k \in key_files}
  IN
    [kind |->
        IF KeyNames \cap {"requirements.txt", "setup.py", "pyproject.toml"} # {}
        THEN "python"
        ELSE IF "package.json" \in KeyNames THEN "node"
        ELSE IF \E f \in files : f.type = "file" /\ EndsWith(f.path, "tsconfig.json")
        THEN "typescript"
        ELSE IF "pom.xml" \in KeyNames THEN "maven"
        ELSE IF "build.gradle" \in KeyNames THEN "gradle"
        ELSE IF "Cargo.toml" \in KeyNames THEN "rust"
        ELSE IF "go.mod" \in KeyNames THEN "go"
        ELSE "other",
     makefile |-> \E f \in files : f.path = "Makefile",
     test_dirs |-> \E f \in files : f.type = "directory" /\ MatchesTestPattern(f.path),
     test_paths |->
        IF \E f \in files : f.type = "file" /\ Contains(Lower(f.path), "pytest")
        THEN "pytest"
        ELSE IF \E f \in files : f.type = "file" /\ MatchesTestPattern(f.path)
        THEN "test"
        ELSE "none",
     package_test |-> \E k \in key_files : k.name = "package.json" /\ k.has_test,
     test_config |-> \E f \in files : f.type = "file" /\ IsTestConfig(f.path)]

InitDetect ==
    /\ pc = "detect_call"
    /\ max_iterations = 1
    /\ ci_commands = {}
    /\ ci_before = UnknownSummary
    /\ iteration = 0
    /\ current_spec = 0
    /\ pr_number = NoPR
    /\ files_to_change = << >>
    /\ fixed_files = << >>
    /\ failed_files = << >>
    /\ ci_after = EmptyDict
    /\ ci_match_result = EmptyDict
    /\ review_result = EmptyDict
    /\ gh \in {GhMerged}
    /\ result = NoResult
    /\ select_calls = 0
    /\ pr_posts = 0
    /\ compared = FALSE
    /\ reviewed = FALSE
    /\ decision = NoDecision
    /\ fixed_any = FALSE
    /\ regressed_any = FALSE
    /\ calls = << >>
    /\ sandbox = NoSandbox
    /\ resolver \in [called : {FALSE}, repo : Repositories,
                     outcome : {"ok", "no_main", "network", "token"}, answer : ModelAnswers]
    /\ outcomes = << >>
    /\ pr_call = NoCall
    /\ requests = << >>
    /\ tree = NoTree
    /\ http = << >>
    /\ current_code = NoCode
    /\ file_sha = NoSha
    /\ raised = NoException
    /\ comments = << >>
    /\ refinement = NoRefinement
    /\ agent = NoAgentCall
    /\ runs = NoRuns

\* main.py lines 1204-1345: determine_ci_commands with the structure it
\* fetches; a token that cannot be obtained raises inside
\* get_repository_structure and ends in lines 1340-1345
CallDetect ==
    /\ pc = "detect_call"
    /\ LET raises == resolver.outcome = "token"
           repo_structure ==
               IF raises THEN [success |-> False]
               ELSE get_repository_structure(resolver.repo, resolver.outcome, 3)
           fetched == Truthy(repo_structure.success)
           files == FilesOf(repo_structure)
           key_files == KeyFilesOf(repo_structure)
           structure == StructureRead(files, key_files)
       IN  resolver' =
             [called |-> TRUE, repo |-> resolver.repo, outcome |-> resolver.outcome,
              answer |-> resolver.answer, fetched |-> fetched,
              listing |-> IF "structure" \in DOMAIN repo_structure
                          THEN repo_structure.structure ELSE {},
              structure |-> structure,
              has_tests |-> check_tests_exist(structure),
              result |-> determine_ci_commands(fetched, structure, resolver.answer)]
    /\ pc' = "detect_done"
    /\ UNCHANGED <<args, iteration, current_spec, pr_number, locals, gh, result,
                   observed, calls, sandbox, outcomes, pr_call, requests, agent, runs,
                   file_locals, noted>>

NextDetect == CallDetect

SpecDetect == InitDetect /\ [][NextDetect]_vars

(* ------------------------------- C39 ----------------------------------- *)
\* C39: whenever the listing determine_ci_commands obtained from
\* get_repository_structure holds a file or directory whose path matches a
\* test pattern, or a test configuration file, has_tests is true.
C39_TestsDetected ==
    resolver.called /\ resolver.fetched =>
        ((\E e \in resolver.listing :
             MatchesTestPattern(e.path) \/ IsTestConfig(e.path))
           => resolver.has_tests)

====
